---- MODULE Spec2Model ----
(***************************************************************************)
(* Model of the identity core of zero2prod:                                *)
(*   - the refresh-token store (auth/refresh_token.rs) and the             *)
(*     /auth/refresh rotation flow (routes/auth.rs),                       *)
(*   - the access-token signer/verifier (auth/jwt.rs, auth/claims.rs).     *)
(* Spec      : login/register issuance and concurrent refresh requests,    *)
(*             one step per awaited store statement.                       *)
(* SpecStore : direct calls of the store functions, in any order.          *)
(* SpecJwt   : issuance and verification of access tokens over a clock.      *)
(***************************************************************************)
EXTENDS Integers, Sequences, FiniteSets, TLC

\* ---------------------------------------------------------------- bounds
MaxTokens == 3          \* distinct refresh-token plaintexts
MaxStoreRows == 2       \* rows inserted by direct save_refresh_token calls (SpecStore)
MaxTime == 2            \* last clock value of Spec and SpecStore
MaxRefreshTtl == 1      \* largest configured refresh_token_expiry
MaxAccessTtl == 2       \* largest configured access_token_expiry
MaxIssued == 1          \* access tokens issued in one behaviour of SpecJwt
MaxSkew == 1            \* single seconds the clock of SpecJwt moves on either side of a leap
StartTime == 100        \* clock value at which SpecJwt starts
SigLen == 2             \* characters of the signature segment of an access token
MaxCalls == 13          \* calls of check_rate_limit in one behaviour of SpecGuard
MaxGuardTime == 6       \* seconds the clock of SpecGuard runs
MaxRpm == 2             \* largest requests_per_minute in SpecLock
MaxLockCalls == 3       \* calls of check_rate_limit in one behaviour of SpecLock

Users == {"u1", "u2"}                 \* user ids (Uuid values)
Procs == {"r1", "r2"}                 \* concurrent /auth/refresh requests
Tokens == 1..MaxTokens                \* refresh-token plaintexts
RefreshTtls == 1..MaxRefreshTtl
AccessTtls == (-1)..MaxAccessTtl      \* access_token_expiry is any i64
Emails == {"a@x.io", "b@x.io"}
Secrets == {"k1", "k2"}
Issuers == {"A", "B"}
Addrs == {"10.0.0.1", "10.0.0.2"}     \* client addresses (keys of limiters)
Threads == {"w1", "w2"}               \* worker threads serving requests
Subscribers == {"b1", "b2"}           \* subscriber ids (Uuid values)
ConfTokens == {"c1", "c2", "c3"}      \* confirmation tokens (Uuid strings)

VARIABLES
    rows,       \* table refresh_tokens, in insertion order
    users,      \* table users: status of each user id
    now,        \* wall clock (Utc::now())
    config,     \* JwtSettings
    pc,         \* position of each refresh request
    req,        \* locals of each refresh request: presented token, user id
    rotations,  \* history: <<old, new>> of every refresh answered 200
    swept,      \* history: row ids that were active when revoke_all ran for their owner
    lastOp,     \* history: the last direct call of a store function
    issued,     \* SpecJwt: access tokens issued so far, with their inputs
    lastVerify, \* SpecJwt: the last validate_access_token call
    stored,     \* SpecPassword: the last hash_password call and its result
    lastCheck,  \* SpecPassword: the last verify_password call and its result
    limiters,   \* RateLimiterManager.limiters: the bucket of each address
    mutex,      \* holder of the Mutex around limiters
    threads,    \* position and address of each thread in check_rate_limit
    stats,      \* history: calls answered and admitted, per address
    guardConfig, \* RateLimiterManager.config
    lastGuard,  \* history: the last guard call answered
    served,     \* history: the last request the HTTP server answered
    accounts,   \* table users: id, email, name, password_hash, is_active
    regs,       \* position of each register request in flight
    lastAuth,   \* history: the last answer of register or login
    lastValid,  \* history: the last call of an input validator
    subscriptions,       \* table subscriptions: status of each subscriber id
    subscription_tokens, \* table subscription_tokens
    confirms,   \* position and locals of each confirm request in flight
    confirmLog  \* history: tokens issued, tokens confirmed, the last answer

vars == <<rows, users, now, config, pc, req, rotations, swept, lastOp,
          issued, lastVerify, stored, lastCheck, limiters, mutex, threads,
          stats, guardConfig, lastGuard, served, accounts, regs, lastAuth,
          lastValid, subscriptions, subscription_tokens, confirms, confirmLog>>

credVars == <<stored, lastCheck>>
guardVars == <<limiters, mutex, threads, stats, guardConfig, lastGuard>>
extVars == <<credVars, guardVars>>
appVars == <<served, accounts, regs, lastAuth, lastValid>>
subVars == <<subscriptions, subscription_tokens, confirms, confirmLog>>

flowVars == <<users, pc, req, rotations>>
jwtVars == <<issued, lastVerify>>

\* ---------------------------------------------------------------- the state outside the token flows, after construction
\* RateLimitConfig::default()
DefaultRequestsPerMinute == 10
DefaultMaxContentLength == 1024
RateLimitConfig_default ==
    [requests_per_minute |-> DefaultRequestsPerMinute,
     max_content_length |-> DefaultMaxContentLength]

\* an address without an entry in limiters; a thread outside check_rate_limit
NoBucket == [present |-> FALSE]
Idle == [pc |-> "idle", ip |-> "none"]
NoStats == [created |-> -1, last |-> -1, calls |-> 0, burst |-> 0, burstOk |-> 0,
            late |-> 0, lateOk |-> 0, lateFrom |-> -1,
            emptied |-> -1, from |-> -1, win |-> 0, counted |-> FALSE,
            skipped |-> FALSE]

\* RateLimiterManager::new(config): no buckets, the mutex free; no password
\* hashed yet
ExtInit ==
    /\ stored = [op |-> "none"]
    /\ lastCheck = [op |-> "none"]
    /\ limiters = [a \in Addrs |-> NoBucket]
    /\ mutex = "free"
    /\ threads = [t \in Threads |-> Idle]
    /\ stats = [a \in Addrs |-> NoStats]
    /\ guardConfig = RateLimitConfig_default
    /\ lastGuard = [op |-> "none"]
    /\ served = [op |-> "none"]
    /\ accounts = <<>>
    /\ regs = [p \in Procs |-> [pc |-> "idle"]]
    /\ lastAuth = [op |-> "none"]
    /\ lastValid = [op |-> "none"]
    /\ subscriptions = [b \in Subscribers |-> "none"]
    /\ subscription_tokens = {}
    /\ confirms = [p \in Procs |-> [pc |-> "idle"]]
    /\ confirmLog = [issued |-> {}, ok |-> {}, last |-> [status |-> 0]]

\* ---------------------------------------------------------------- results and errors
Ok(v) == [ok |-> TRUE, val |-> v]
Err(e) == [ok |-> FALSE, err |-> e]

\* AppError::Validation(ValidationError::InvalidFormat(msg))
InvalidFormat(msg) == [kind |-> "Validation", variant |-> "InvalidFormat", msg |-> msg]
\* AppError::Database(DatabaseError::NotFound("Record not found")), from sqlx "no rows"
NotFound == [kind |-> "Database", variant |-> "NotFound", msg |-> "Record not found"]
\* AppError::Internal(msg)
Internal(msg) == [kind |-> "Internal", variant |-> "Internal", msg |-> msg]

\* AppError::Database(DatabaseError::UniqueConstraintViolation / ConnectionPool /
\* UnexpectedError(msg))
UniqueConstraintViolation(msg) ==
    [kind |-> "Database", variant |-> "UniqueConstraintViolation", msg |-> msg]
ConnectionPool(msg) == [kind |-> "Database", variant |-> "ConnectionPool", msg |-> msg]
UnexpectedError(msg) == [kind |-> "Database", variant |-> "UnexpectedError", msg |-> msg]

\* impl Display for ValidationError / DatabaseError / AppError
Display(e) ==
    CASE e.kind = "Validation" /\ e.variant = "InvalidFormat" -> e.msg \o " has invalid format"
      [] e.kind = "Validation" /\ e.variant = "EmptyField" -> e.msg \o " is empty"
      [] e.kind = "Validation" /\ e.variant = "TooShort" ->
            e.msg \o " is too short (minimum " \o ToString(e.limit) \o " characters)"
      [] e.kind = "Validation" /\ e.variant = "TooLong" ->
            e.msg \o " is too long (maximum " \o ToString(e.limit) \o " characters)"
      [] e.kind = "Validation" /\ e.variant = "SuspiciousContent" ->
            e.msg \o " contains suspicious content"
      [] e.kind = "Validation" /\ e.variant = "PossibleSQLInjection" ->
            "input contains potentially dangerous SQL patterns"
      [] e.kind = "Database" /\ e.variant = "UniqueConstraintViolation" ->
            "Duplicate entry: " \o e.msg
      [] e.kind = "Database" /\ e.variant = "NotFound" -> "Not found: " \o e.msg
      [] e.kind = "Database" /\ e.variant = "ConnectionPool" ->
            "Database connection error: " \o e.msg
      [] e.kind = "Database" /\ e.variant = "UnexpectedError" -> "Database error: " \o e.msg
      [] e.kind = "Internal" -> "Internal error: " \o e.msg

\* ErrorHandler::error_response: status, code and message sent to the caller
error_response(e) ==
    CASE e.kind = "Validation" ->
            [status |-> 400, code |-> "VALIDATION_ERROR", message |-> Display(e)]
      [] e.kind = "Database" /\ e.variant = "UniqueConstraintViolation" ->
            [status |-> 409, code |-> "DUPLICATE_ENTRY", message |-> Display(e)]
      [] e.kind = "Database" /\ e.variant = "NotFound" ->
            [status |-> 404, code |-> "NOT_FOUND", message |-> Display(e)]
      [] e.kind = "Database" /\ e.variant = "ConnectionPool" ->
            [status |-> 503, code |-> "SERVICE_UNAVAILABLE",
             message |-> "Database service temporarily unavailable"]
      [] e.kind = "Database" /\ e.variant = "UnexpectedError" ->
            [status |-> 500, code |-> "DATABASE_ERROR", message |-> "Database error occurred"]
      [] e.kind = "Internal" ->
            [status |-> 500, code |-> "INTERNAL_ERROR", message |-> "Internal server error"]

\* ---------------------------------------------------------------- refresh-token store
\* SHA-256 hex digest of the plaintext: deterministic, collision free on Tokens
hash_token(token) == <<"sha256", token>>

\* rows whose token_hash equals h (WHERE token_hash = $1)
Matching(tbl, h) == {i \in DOMAIN tbl : tbl[i].token_hash = h}

\* generate_refresh_token: 64 random alphanumeric characters, a value no row
\* was stored under; plaintexts are interchangeable, so the k-th generated
\* one is named k
generate_refresh_token(tbl) ==
    {t \in Tokens : t = Len(tbl) + 1 /\ Matching(tbl, hash_token(t)) = {}}

\* table refresh_tokens takes every row it is given: the id is a fresh Uuid,
\* and no column of the table is described as unique
refresh_tokens_insert(tbl, row) == Append(tbl, row)

\* save_refresh_token: INSERT one row, is_revoked defaults to false
save_refresh_token(tbl, user_id, token, expiry_seconds, clock) ==
    refresh_tokens_insert(tbl,
                [user_id |-> user_id,
                 token_hash |-> hash_token(token),
                 expires_at |-> clock + expiry_seconds,
                 created_at |-> clock,
                 is_revoked |-> FALSE,
                 revoked_at |-> {}])

\* variant: the expiry test written with <= (a token dies one instant early)
CheckRow_ExpiresInclusive(r, clock) ==
    IF r.is_revoked THEN Err(InvalidFormat("Token has been revoked"))
    ELSE IF r.expires_at <= clock THEN Err(InvalidFormat("Token has expired"))
    ELSE Ok(r.user_id)

\* the match on one fetched row (refresh_token.rs 114-132)
CheckRow(r, clock) ==
    IF r.is_revoked THEN Err(InvalidFormat("Token has been revoked"))
    ELSE IF r.expires_at < clock THEN Err(InvalidFormat("Token has expired"))
    ELSE Ok(r.user_id)

\* validate_refresh_token: the results fetch_optional can lead to (one per
\* matching row; the statement has no ORDER BY)
validate_refresh_token(tbl, token, clock) ==
    LET m == Matching(tbl, hash_token(token)) IN
    IF m = {} THEN {Err(InvalidFormat("Invalid refresh token"))}
    ELSE {CheckRow(tbl[i], clock) : i \in m}

\* variant: the UPDATE flips is_revoked instead of setting it
revoke_refresh_token_Toggle(tbl, token, clock) ==
    [i \in DOMAIN tbl |->
        IF tbl[i].token_hash = hash_token(token)
        THEN [tbl[i] EXCEPT !.is_revoked = ~tbl[i].is_revoked, !.revoked_at = {clock}]
        ELSE tbl[i]]

\* variant: the UPDATE stamps revoked_at but leaves is_revoked as it was
revoke_refresh_token_StampOnly(tbl, token, clock) ==
    [i \in DOMAIN tbl |->
        IF tbl[i].token_hash = hash_token(token)
        THEN [tbl[i] EXCEPT !.revoked_at = {clock}]
        ELSE tbl[i]]

\* revoke_refresh_token: UPDATE ... SET is_revoked = true, revoked_at = now
\* WHERE token_hash = $2
revoke_refresh_token(tbl, token, clock) ==
    [i \in DOMAIN tbl |->
        IF tbl[i].token_hash = hash_token(token)
        THEN [tbl[i] EXCEPT !.is_revoked = TRUE, !.revoked_at = {clock}]
        ELSE tbl[i]]

\* variant: the bulk UPDATE deletes the user's rows instead of flagging them
revoke_all_user_tokens_Delete(tbl, user_id, clock) ==
    SelectSeq(tbl, LAMBDA r : r.user_id # user_id)

\* variant: the bulk UPDATE stops after the user's oldest active row
revoke_all_user_tokens_First(tbl, user_id, clock) ==
    LET mine == {i \in DOMAIN tbl : tbl[i].user_id = user_id /\ ~tbl[i].is_revoked} IN
    [i \in DOMAIN tbl |->
        IF i \in mine /\ \A j \in mine : i <= j
        THEN [tbl[i] EXCEPT !.is_revoked = TRUE, !.revoked_at = {clock}]
        ELSE tbl[i]]

\* variant: the bulk UPDATE has no "AND is_revoked = false"
revoke_all_user_tokens_Restamp(tbl, user_id, clock) ==
    [i \in DOMAIN tbl |->
        IF tbl[i].user_id = user_id
        THEN [tbl[i] EXCEPT !.is_revoked = TRUE, !.revoked_at = {clock}]
        ELSE tbl[i]]

\* revoke_all_user_tokens: UPDATE ... WHERE user_id = $2 AND is_revoked = false
revoke_all_user_tokens(tbl, user_id, clock) ==
    [i \in DOMAIN tbl |->
        IF tbl[i].user_id = user_id /\ ~tbl[i].is_revoked
        THEN [tbl[i] EXCEPT !.is_revoked = TRUE, !.revoked_at = {clock}]
        ELSE tbl[i]]

\* ---------------------------------------------------------------- initial state
NoReq == [token |-> 0, user_id |-> "none"]

Init ==
    /\ rows = <<>>
    /\ users = [u \in Users |-> "none"]
    /\ now = 0
    /\ config \in {[secret |-> "k1", access_token_expiry |-> 1,
                     refresh_token_expiry |-> t, issuer |-> "A"] : t \in RefreshTtls}
    /\ pc = [p \in Procs |-> "idle"]
    /\ req = [p \in Procs |-> NoReq]
    /\ rotations = {}
    /\ swept = {}
    /\ lastOp = [op |-> "none"]
    /\ issued = {}
    /\ lastVerify = [op |-> "none"]
    /\ ExtInit

\* ---------------------------------------------------------------- issuance on register / login
\* register: INSERT the user, then generate and save a refresh token
Register(u) ==
    /\ users[u] = "none"
    /\ \E t \in generate_refresh_token(rows) :
          rows' = save_refresh_token(rows, u, t, config.refresh_token_expiry, now)
    /\ users' = [users EXCEPT ![u] = "active"]
    /\ UNCHANGED <<appVars, extVars, now, config, subVars, pc, req, rotations, swept, lastOp, jwtVars>>

\* login of an existing active user whose password verifies
Login(u) ==
    /\ users[u] = "active"
    /\ \E t \in generate_refresh_token(rows) :
          rows' = save_refresh_token(rows, u, t, config.refresh_token_expiry, now)
    /\ UNCHANGED <<appVars, extVars, users, now, config, subVars, pc, req, rotations, swept, lastOp, jwtVars>>

\* users.is_active set to false outside the routes (the column the refresh
\* and login queries read)
DeactivateUser(u) ==
    /\ users[u] = "active"
    /\ users' = [users EXCEPT ![u] = "inactive"]
    /\ UNCHANGED <<appVars, extVars, rows, now, config, subVars, pc, req, rotations, swept, lastOp, jwtVars>>

\* ---------------------------------------------------------------- POST /auth/refresh
\* validate_refresh_token(pool, &form.refresh_token).await?  An Err returns
\* at once: the request ends where it started.
RefreshValidate(p, t) ==
    /\ pc[p] = "idle"
    /\ \E res \in validate_refresh_token(rows, t, now) :
          /\ res.ok
          /\ pc' = [pc EXCEPT ![p] = "revoke"]
          /\ req' = [req EXCEPT ![p] = [token |-> t, user_id |-> res.val]]
    /\ UNCHANGED <<appVars, extVars, rows, users, now, config, subVars, rotations, swept, lastOp, jwtVars>>

\* variant: the handler goes on to the user lookup without revoking
RefreshRevoke_Skipped(p) ==
    /\ pc[p] = "revoke"
    /\ pc' = [pc EXCEPT ![p] = "fetch"]
    /\ UNCHANGED <<appVars, extVars, rows, users, now, config, subVars, req, rotations, swept, lastOp, jwtVars>>

\* revoke_refresh_token(pool, &form.refresh_token).await?
RefreshRevoke(p) ==
    /\ pc[p] = "revoke"
    /\ rows' = revoke_refresh_token(rows, req[p].token, now)
    /\ pc' = [pc EXCEPT ![p] = "fetch"]
    /\ UNCHANGED <<appVars, extVars, users, now, config, subVars, req, rotations, swept, lastOp, jwtVars>>

\* variant: the lookup does not ask for is_active = true
RefreshFetchUser_AnyUser(p) ==
    /\ pc[p] = "fetch"
    /\ pc' = [pc EXCEPT ![p] = "save"]
    /\ UNCHANGED <<appVars, extVars, rows, users, now, config, subVars, req, rotations, swept, lastOp, jwtVars>>

\* SELECT email FROM users WHERE id = $1 AND is_active = true; fetch_one
\* fails with "no rows" (404) when the user is not active
RefreshFetchUser(p) ==
    /\ pc[p] = "fetch"
    /\ IF users[req[p].user_id] = "active"
       THEN /\ pc' = [pc EXCEPT ![p] = "save"]
            /\ req' = req
       ELSE /\ pc' = [pc EXCEPT ![p] = "idle"]
            /\ req' = [req EXCEPT ![p] = NoReq]
    /\ UNCHANGED <<appVars, extVars, rows, users, now, config, subVars, rotations, swept, lastOp, jwtVars>>

\* generate the new pair, save_refresh_token(...).await?, answer 200
RefreshSave(p) ==
    /\ pc[p] = "save"
    /\ \E t \in generate_refresh_token(rows) :
          /\ rows' = save_refresh_token(rows, req[p].user_id, t,
                                        config.refresh_token_expiry, now)
          /\ rotations' = rotations \cup {<<req[p].token, t>>}
    /\ pc' = [pc EXCEPT ![p] = "idle"]
    /\ req' = [req EXCEPT ![p] = NoReq]
    /\ UNCHANGED <<appVars, extVars, users, now, config, subVars, swept, lastOp, jwtVars>>

\* revoke_all_user_tokens(pool, u): logout everywhere
LogoutAll(u) ==
    /\ users[u] # "none"
    /\ rows' = revoke_all_user_tokens(rows, u, now)
    /\ UNCHANGED <<appVars, extVars, users, now, config, subVars, pc, req, rotations, swept, lastOp, jwtVars>>

\* the wall clock advances
Tick ==
    /\ now < MaxTime
    /\ now' = now + 1
    /\ UNCHANGED <<appVars, extVars, rows, flowVars, swept, lastOp, config, subVars, jwtVars>>

Next ==
    \/ \E u \in Users : Register(u)
    \/ \E u \in Users : Login(u)
    \/ \E u \in Users : DeactivateUser(u)
    \/ \E p \in Procs, t \in Tokens : RefreshValidate(p, t)
    \/ \E p \in Procs : RefreshRevoke(p)
    \/ \E p \in Procs : RefreshFetchUser(p)
    \/ \E p \in Procs : RefreshSave(p)
    \/ \E u \in Users : LogoutAll(u)
    \/ Tick

Spec == Init /\ [][Next]_vars

\* generate_access_token(..)? or save_refresh_token(..).await? returns Err
\* (the token cannot be signed, the INSERT fails): the handler returns the
\* error, nothing is inserted
RefreshSaveErr(p) ==
    /\ pc[p] = "save"
    /\ pc' = [pc EXCEPT ![p] = "idle"]
    /\ req' = [req EXCEPT ![p] = NoReq]
    /\ UNCHANGED <<appVars, extVars, rows, users, now, config, subVars, rotations, swept, lastOp, jwtVars>>

\* the refresh flows, with statements that can fail
NextRefreshErr ==
    \/ Next
    \/ \E p \in Procs : RefreshSaveErr(p)

SpecRefreshErr == Init /\ [][NextRefreshErr]_vars

\* ---------------------------------------------------------------- direct calls of the store functions
\* state of a plaintext's row before a call: "absent", "active" or "revoked"
RowState(tbl, t) ==
    LET m == Matching(tbl, hash_token(t)) IN
    IF m = {} THEN "absent"
    ELSE IF \E i \in m : tbl[i].is_revoked THEN "revoked" ELSE "active"

SaveCall(u) ==
    /\ Len(rows) < MaxStoreRows
    /\ \E t \in generate_refresh_token(rows) :
          /\ rows' = save_refresh_token(rows, u, t, config.refresh_token_expiry, now)
          /\ lastOp' = [op |-> "save", arg |-> t, ret |-> Ok("unit"), pre |-> "absent"]
    /\ UNCHANGED <<appVars, extVars, flowVars, now, config, subVars, swept, jwtVars>>

\* variant: a validation that succeeds revokes the row it read
ValidateCall_Consume(t) ==
    /\ \E res \in validate_refresh_token(rows, t, now) :
          /\ lastOp' = [op |-> "validate", arg |-> t, ret |-> res, pre |-> RowState(rows, t)]
          /\ rows' = IF res.ok THEN revoke_refresh_token(rows, t, now) ELSE rows
    /\ UNCHANGED <<appVars, extVars, flowVars, now, config, subVars, swept, jwtVars>>

ValidateCall(t) ==
    /\ \E res \in validate_refresh_token(rows, t, now) :
          lastOp' = [op |-> "validate", arg |-> t, ret |-> res, pre |-> RowState(rows, t)]
    /\ UNCHANGED <<appVars, extVars, rows, flowVars, now, config, subVars, swept, jwtVars>>

RevokeCall(t) ==
    /\ rows' = revoke_refresh_token(rows, t, now)
    /\ lastOp' = [op |-> "revoke", arg |-> t, ret |-> Ok("unit"), pre |-> RowState(rows, t)]
    /\ UNCHANGED <<appVars, extVars, flowVars, now, config, subVars, swept, jwtVars>>

RevokeAllCall(u) ==
    /\ rows' = revoke_all_user_tokens(rows, u, now)
    /\ swept' = swept \cup {i \in DOMAIN rows : rows[i].user_id = u /\ ~rows[i].is_revoked}
    /\ lastOp' = [op |-> "revoke_all", arg |-> u, ret |-> Ok("unit"), pre |-> "any"]
    /\ UNCHANGED <<appVars, extVars, flowVars, now, config, subVars, jwtVars>>

NextStore ==
    \/ \E u \in Users : SaveCall(u)
    \/ \E t \in Tokens : ValidateCall(t)
    \/ \E t \in Tokens : RevokeCall(t)
    \/ \E u \in Users : RevokeAllCall(u)
    \/ Tick

SpecStore == Init /\ [][NextStore]_vars

\* save_refresh_token(pool, u, t, expiry) with a plaintext of the caller's
\* choice, one stored before included
SaveAgainCall(u, t) ==
    /\ Len(rows) < MaxStoreRows
    /\ rows' = save_refresh_token(rows, u, t, config.refresh_token_expiry, now)
    /\ lastOp' = [op |-> "save", arg |-> t, ret |-> Ok("unit"), pre |-> RowState(rows, t)]
    /\ UNCHANGED <<appVars, extVars, flowVars, now, config, subVars, swept, jwtVars>>

NextResave ==
    \/ \E u \in Users, t \in Tokens : SaveAgainCall(u, t)
    \/ \E t \in Tokens : ValidateCall(t)
    \/ \E t \in Tokens : RevokeCall(t)
    \/ Tick

SpecResave == Init /\ [][NextResave]_vars

\* ---------------------------------------------------------------- access tokens (auth/claims.rs, auth/jwt.rs)
\* Uuid::to_string
uuid_to_string(u) == "uuid-" \o u

\* variant: exp holds the lifetime itself, not the instant it ends
Claims_new_ExpRelative(user_id, email, expiry_seconds, issuer, clock) ==
    [sub |-> uuid_to_string(user_id), email |-> email,
     exp |-> expiry_seconds, iat |-> clock, iss |-> issuer]

\* Claims::new
Claims_new(user_id, email, expiry_seconds, issuer, clock) ==
    [sub |-> uuid_to_string(user_id), email |-> email,
     exp |-> clock + expiry_seconds, iat |-> clock, iss |-> issuer]

\* Claims::is_expired
is_expired(claims, clock) == claims.exp < clock

\* serde_json: a struct as JSON text, one member per field, in declaration order
to_json(rec, fields) == [i \in DOMAIN fields |-> <<fields[i], rec[fields[i]]>>]
JsonKeys(text) == {text[i][1] : i \in DOMAIN text}
JsonGet(text, k) == text[CHOOSE i \in DOMAIN text : text[i][1] = k][2]

\* serde_json::from_slice into a struct: text that is not a sequence of
\* members of the struct, a missing required field or a repeated field is an
\* error
from_json(text, fields, required) ==
    IF \E i \in DOMAIN text : text[i][1] \notin fields THEN Err("Json")
    ELSE IF ~(required \subseteq JsonKeys(text)) THEN Err("Json")
    ELSE IF \E i, j \in DOMAIN text : i # j /\ text[i][1] = text[j][1] THEN Err("Json")
    ELSE Ok([k \in JsonKeys(text) |-> JsonGet(text, k)])

\* the fields of jsonwebtoken::Header that are written, and of Claims
HeaderFields == <<"typ", "alg">>
ClaimFields == <<"sub", "email", "exp", "iat", "iss">>
ClaimKeys == {ClaimFields[i] : i \in DOMAIN ClaimFields}
claims_from_json(text) == from_json(text, ClaimKeys, ClaimKeys)

\* the algorithms jsonwebtoken::Algorithm can name in a header
Algorithms == {"HS256", "HS384"}

\* a compact token is a string: one character per unit of base64url text,
\* and the separator
Dot == <<"dot", <<".", 0>>>>
b64(bytes) == [i \in DOMAIN bytes |-> <<"b64", bytes[i]>>]
b64_decode(seg) ==
    IF \A i \in DOMAIN seg : seg[i][1] = "b64"
    THEN Ok([i \in DOMAIN seg |-> seg[i][2]])
    ELSE Err("Base64")

\* HMAC-SHA256 of the signing input under a key: SigLen units, each a
\* function of the key and of the whole input
hmac_sha256(key, message) == [i \in 1..SigLen |-> <<"mac", <<key, message, i>>>>]

\* crypto::sign: the base64url text of the MAC
sign(message, key) == b64(hmac_sha256(key, message))

\* variant: only the leading characters of the presented signature are compared
verify_Prefix(signature, message, key) ==
    /\ Len(signature) >= SigLen
    /\ SubSeq(signature, 1, SigLen) = sign(message, key)

\* crypto::verify for HMAC: re-sign the input and compare the two texts
verify(signature, message, key) == signature = sign(message, key)

\* Header::default()
DefaultHeader == [typ |-> "JWT", alg |-> "HS256"]

\* jsonwebtoken::encode: header.payload.signature
encode(header, claims, key) ==
    LET message == b64(to_json(header, HeaderFields)) \o <<Dot>> \o
                   b64(to_json(claims, ClaimFields))
    IN  message \o <<Dot>> \o sign(message, key)

\* generate_access_token
generate_access_token(user_id, email, cfg, clock) ==
    encode(DefaultHeader,
           Claims_new(user_id, email, cfg.access_token_expiry, cfg.issuer, clock),
           cfg.secret)

\* Validation::new(Algorithm::HS256) and set_issuer: the library's defaults
\* are validate_exp = true and a leeway of 60 seconds
Leeway == 60

\* variant: set_issuer is left out, any issuer passes
Validation_AnyIssuer(cfg) == [algorithms |-> {"HS256"}, leeway |-> Leeway,
                              validate_exp |-> TRUE, iss |-> Issuers]

Validation(cfg) == [algorithms |-> {"HS256"}, leeway |-> Leeway,
                    validate_exp |-> TRUE, iss |-> {cfg.issuer}]

\* the token split at its last two separators: signature, payload, and the
\* rest as header
split(token) ==
    LET dots == {i \in DOMAIN token : token[i] = Dot} IN
    IF Cardinality(dots) < 2 THEN Err("InvalidToken")
    ELSE LET j == CHOOSE d \in dots : \A e \in dots : e <= d
             i == CHOOSE d \in dots \ {j} : \A e \in dots \ {j} : e <= d
         IN  Ok([header |-> SubSeq(token, 1, i - 1),
                 payload |-> SubSeq(token, i + 1, j - 1),
                 signature |-> SubSeq(token, j + 1, Len(token)),
                 message |-> SubSeq(token, 1, j - 1)])

\* Header::from_encoded
header_from_encoded(seg) ==
    LET raw == b64_decode(seg) IN
    IF ~raw.ok THEN raw
    ELSE LET h == from_json(raw.val, {HeaderFields[i] : i \in DOMAIN HeaderFields}, {"alg"}) IN
         IF ~h.ok THEN h
         ELSE IF h.val.alg \notin Algorithms THEN Err("Json")
         ELSE h

\* validation of the registered claims: exp with the leeway, then iss
validate(claims, validation, clock) ==
    IF claims.exp < 0 THEN Err("MissingRequiredClaim")
    ELSE IF validation.validate_exp /\ claims.exp < clock - validation.leeway
         THEN Err("ExpiredSignature")
    ELSE IF claims.iss \notin validation.iss THEN Err("InvalidIssuer")
    ELSE Ok(claims)

\* the claims of a token whose signature has been accepted
decode_claims(seg, validation, clock) ==
    LET raw == b64_decode(seg) IN
    IF ~raw.ok THEN raw
    ELSE LET parsed == claims_from_json(raw.val) IN
         IF ~parsed.ok THEN parsed
         ELSE validate(parsed.val, validation, clock)

\* jsonwebtoken::decode: split, header, algorithm pin, signature, claims
decode(token, key, validation, clock) ==
    LET parts == split(token) IN
    IF ~parts.ok THEN parts
    ELSE LET header == header_from_encoded(parts.val.header) IN
         IF ~header.ok THEN header
         ELSE IF header.val.alg \notin validation.algorithms THEN Err("InvalidAlgorithm")
         ELSE IF ~verify(parts.val.signature, parts.val.message, key)
              THEN Err("InvalidSignature")
         ELSE decode_claims(parts.val.payload, validation, clock)

\* variant: the error names what decode found wrong
validate_access_token_Leak(token, cfg, clock) ==
    LET data == decode(token, cfg.secret, Validation(cfg), clock) IN
    IF data.ok THEN Ok(data.val) ELSE Err(Internal(data.err))

\* validate_access_token: every decode error becomes one Internal error
validate_access_token(token, cfg, clock) ==
    LET data == decode(token, cfg.secret, Validation(cfg), clock) IN
    IF data.ok THEN Ok(data.val) ELSE Err(Internal("Invalid or expired token"))

\* ---------------------------------------------------------------- bearer authentication (middleware/jwt_middleware.rs)
\* the Authorization header of a request: absent, or a scheme prefix and
\* the text after it
NoHeader == [present |-> FALSE]
AuthHeader(prefix, rest) == [present |-> TRUE, prefix |-> prefix, rest |-> rest]

\* HttpResponse::Unauthorized().json(..)
Unauthorized(error, code) ==
    [status |-> 401, body |-> [error |-> error, code |-> code]]

\* variant: the text after any scheme prefix is taken as the token
bearer_token_AnyScheme(header) ==
    IF header.present
    THEN [some |-> TRUE, token |-> header.rest]
    ELSE [some |-> FALSE]

\* the token of the header: Some(rest) when it starts with "Bearer "
bearer_token(header) ==
    IF header.present /\ header.prefix = "Bearer "
    THEN [some |-> TRUE, token |-> header.rest]
    ELSE [some |-> FALSE]

\* JwtMiddlewareService::call: 401 without a bearer token, 401 for a token
\* that fails validation, else the wrapped service with the claims attached
JwtMiddleware_call(header, cfg, clock) ==
    LET token == bearer_token(header) IN
    IF ~token.some
    THEN Unauthorized("Missing or invalid authorization header", "UNAUTHORIZED")
    ELSE LET res == validate_access_token(token.token, cfg, clock) IN
         IF res.ok THEN [status |-> 200, claims |-> res.val]
         ELSE Unauthorized("Invalid or expired token", "TOKEN_INVALID")

\* clock values of SpecJwt: a few seconds after the start and after one leap
\* of the verifier's leeway
JwtClock == {StartTime + a + Leeway * b : a \in 0..(2 * MaxSkew), b \in 0..1}

\* configurations a verifier may hold: the issuer's, or one differing in the
\* issuer name or in the secret
VerifierConfigs ==
    {[config EXCEPT !.issuer = i] : i \in Issuers} \cup
    {[config EXCEPT !.secret = k] : k \in Secrets}

InitJwt ==
    /\ rows = <<>>
    /\ users = [u \in Users |-> "none"]
    /\ now = StartTime
    /\ config \in {[secret |-> "k1", access_token_expiry |-> t,
                     refresh_token_expiry |-> 1, issuer |-> i] :
                        t \in AccessTtls, i \in Issuers}
    /\ pc = [p \in Procs |-> "idle"]
    /\ req = [p \in Procs |-> NoReq]
    /\ rotations = {}
    /\ swept = {}
    /\ lastOp = [op |-> "none"]
    /\ issued = {}
    /\ lastVerify = [op |-> "none"]
    /\ ExtInit

\* generate_access_token(&user_id, &email, config) at the current time
IssueToken(u, e) ==
    /\ Cardinality(issued) < MaxIssued
    /\ issued' = issued \cup {[token |-> generate_access_token(u, e, config, now),
                               user_id |-> u, email |-> e, at |-> now]}
    /\ UNCHANGED <<appVars, extVars, rows, flowVars, swept, lastOp, now, config, subVars, lastVerify>>

\* validate_access_token(token, cfg) at the current time
VerifyCall(x, cfg) ==
    /\ x \in issued
    /\ lastVerify' = [op |-> "verify", issue |-> x, token |-> x.token,
                      cfg |-> cfg, at |-> now,
                      ret |-> validate_access_token(x.token, cfg, now)]
    /\ UNCHANGED <<appVars, extVars, rows, flowVars, swept, lastOp, now, config, subVars, issued>>

\* characters an edit of a token may put in: the separator, text that is no
\* JSON, a later expiry, another subject, another issuer, another algorithm,
\* and a character of the same input's MAC under another key
TamperChars(x) ==
    {Dot} \cup
    {<<"b64", m>> : m \in {<<"X", 0>>, <<"exp", x.at + Leeway + Leeway>>,
                           <<"alg", "none">>, <<"alg", "HS384">>}} \cup
    {<<"b64", <<"sub", uuid_to_string(u)>>>> : u \in Users \ {x.user_id}} \cup
    {<<"b64", <<"iss", i>>>> : i \in Issuers \ {config.issuer}} \cup
    {<<"b64", <<"mac", <<k, split(x.token).val.message, 1>>>>>> :
        k \in Secrets \ {config.secret}}

\* one character of s changed to c, c put in after position i, position i
\* taken out
Replace(s, i, c) == [s EXCEPT ![i] = c]
Insert(s, i, c) == SubSeq(s, 1, i) \o <<c>> \o SubSeq(s, i + 1, Len(s))
Remove(s, i) == SubSeq(s, 1, i - 1) \o SubSeq(s, i + 1, Len(s))

\* the three kinds of edit of a string, applied at position i
EditKinds == {"replace", "insert", "remove"}
Edit(s, kind, i, c) ==
    IF kind = "replace" THEN Replace(s, i, c)
    ELSE IF kind = "insert" THEN Insert(s, i, c)
    ELSE Remove(s, i)

\* validate_access_token on a token one edit away from an issued one, under
\* the issuing configuration
TamperCall(x, kind, i, c) ==
    /\ x \in issued
    /\ kind = "insert" \/ i \in DOMAIN x.token
    /\ kind = "remove" => c = Dot
    /\ Edit(x.token, kind, i, c) # x.token
    /\ lastVerify' = [op |-> "tamper", issue |-> x,
                      token |-> Edit(x.token, kind, i, c),
                      cfg |-> config, at |-> now,
                      ret |-> validate_access_token(Edit(x.token, kind, i, c), config, now)]
    /\ UNCHANGED <<appVars, extVars, rows, flowVars, swept, lastOp, now, config, subVars, issued>>

\* the wall clock advances by a second or by the verifier's leeway
JwtTick(d) ==
    /\ now + d \in JwtClock
    /\ now' = now + d
    /\ UNCHANGED <<appVars, extVars, rows, flowVars, swept, lastOp, config, subVars, jwtVars>>

NextJwt ==
    \/ \E u \in Users, e \in Emails : IssueToken(u, e)
    \/ \E x \in issued, cfg \in VerifierConfigs : VerifyCall(x, cfg)
    \/ \E d \in {1, Leeway} : JwtTick(d)

SpecJwt == InitJwt /\ [][NextJwt]_vars

\* the call of validate_access_token in flight returns to its caller
ReturnCall ==
    /\ lastVerify.op # "none"
    /\ lastVerify' = [op |-> "none"]
    /\ UNCHANGED <<appVars, extVars, rows, flowVars, swept, lastOp, now, config, subVars, issued>>

\* one client holding one token and presenting it to verifiers, one call at
\* a time: the token as it is, and tokens one edit away from it
NextTamper ==
    \/ \E u \in Users, e \in Emails : issued = {} /\ IssueToken(u, e)
    \/ \E x \in issued, cfg \in VerifierConfigs :
          lastVerify.op = "none" /\ VerifyCall(x, cfg)
    \/ \E x \in issued : \E kind \in EditKinds, i \in 0..Len(x.token), c \in TamperChars(x) :
          lastVerify.op = "none" /\ TamperCall(x, kind, i, c)
    \/ ReturnCall
    \/ \E d \in {1, Leeway} : JwtTick(d)

SpecTamper == InitJwt /\ [][NextTamper]_vars

\* ---------------------------------------------------------------- passwords (auth/password.rs)
MIN_PASSWORD_LENGTH == 8
MAX_PASSWORD_LENGTH == 128

\* bcrypt: the cost hash() is called with, and the bytes of the
\* NUL-terminated password that enter the key schedule
DEFAULT_COST == 12
BcryptKeyBytes == 72

\* characters of a password: their length in UTF-8 and the char methods the
\* policy calls; "e-acute" is U+00E9 and "one-half" is U+00BD
Chars == {"A", "a", "1", "!", "#", "e-acute", "one-half"}
len_utf8(c) == IF c \in {"e-acute", "one-half"} THEN 2 ELSE 1
is_numeric(c) == c \in {"1", "one-half"}
is_lowercase(c) == c \in {"a", "e-acute"}
is_uppercase(c) == c = "A"

\* str::as_bytes: the UTF-8 encoding of a string
\* (a character takes up to four bytes; byte k of character c is <<c, k>>)
InChar(b) == b[2] <= len_utf8(b[1])
as_bytes(p) ==
    SelectSeq([j \in 1..(4 * Len(p)) |-> <<p[((j - 1) \div 4) + 1], ((j - 1) % 4) + 1>>],
              InChar)

\* str::len: the length in bytes
str_len(p) == Len(as_bytes(p))

\* AppError::Validation(ValidationError::TooShort / TooLong(field, limit))
TooShort(field, min) == [kind |-> "Validation", variant |-> "TooShort", msg |-> field, limit |-> min]
TooLong(field, max) == [kind |-> "Validation", variant |-> "TooLong", msg |-> field, limit |-> max]

\* validate_password_strength
validate_password_strength(password) ==
    IF str_len(password) < MIN_PASSWORD_LENGTH
    THEN Err(TooShort("password", MIN_PASSWORD_LENGTH))
    ELSE IF str_len(password) > MAX_PASSWORD_LENGTH
    THEN Err(TooLong("password", MAX_PASSWORD_LENGTH))
    ELSE IF ~(/\ \E i \in DOMAIN password : is_numeric(password[i])
              /\ \E i \in DOMAIN password : is_lowercase(password[i])
              /\ \E i \in DOMAIN password : is_uppercase(password[i]))
    THEN Err(InvalidFormat("password must contain at least one digit, one lowercase letter, and one uppercase letter"))
    ELSE Ok("unit")

\* salts the random source of bcrypt::hash may draw
Salts == {"s1", "s2"}

\* the key bcrypt derives from a password: its bytes and a NUL, cut to
\* BcryptKeyBytes
bcrypt_key(password) ==
    LET z == as_bytes(password) \o <<<<"NUL", 0>>>> IN
    IF Len(z) > BcryptKeyBytes THEN SubSeq(z, 1, BcryptKeyBytes) ELSE z

\* bcrypt::hash with a given salt: the digest names version, cost and salt
bcrypt_hash(password, cost, salt) ==
    [version |-> "2b", cost |-> cost, salt |-> salt,
     hash |-> <<"bcrypt", cost, salt, bcrypt_key(password)>>]

\* a stored value that is no bcrypt digest
MalformedDigest == [version |-> "", cost |-> 0, salt |-> "", hash |-> <<>>]

\* bcrypt::verify: parse the digest, hash the password with its cost and
\* salt, compare
bcrypt_verify(password, digest) ==
    IF digest.version \notin {"2a", "2b", "2x", "2y"} THEN Err("InvalidHash")
    ELSE Ok(bcrypt_hash(password, digest.cost, digest.salt).hash = digest.hash)

\* hash_password, with the salt bcrypt draws
hash_password(password, salt) ==
    LET checked == validate_password_strength(password) IN
    IF ~checked.ok THEN checked
    ELSE Ok(bcrypt_hash(password, DEFAULT_COST, salt))

\* verify_password
verify_password(password, hash) ==
    LET res == bcrypt_verify(password, hash) IN
    IF res.ok THEN res ELSE Err(Internal("Password verification failed: " \o res.err))

\* passwords of the model: a head that fixes the character classes, filled
\* up to a length at an edge of the policy; and pairs with all the classes
\* that differ in their last character only, at the shortest length and at
\* the edge of bcrypt
Heads == {<<"A", "a", "1">>, <<"A", "a", "!">>, <<"A", "!", "1">>, <<"!", "a", "1">>,
          <<"A", "a", "one-half">>, <<"A", "e-acute", "1">>}
Lengths == {MIN_PASSWORD_LENGTH - 1, MIN_PASSWORD_LENGTH,
            MAX_PASSWORD_LENGTH, MAX_PASSWORD_LENGTH + 1}
Fill(n, last) == [i \in 1..n |-> IF i = n THEN last ELSE "!"]
Passwords ==
    {h \o Fill(l - Len(h), "!") : h \in Heads, l \in Lengths} \cup
    {<<"A", "a", "1">> \o Fill(l - 3, last) :
        l \in {MIN_PASSWORD_LENGTH, BcryptKeyBytes, BcryptKeyBytes + 1},
        last \in {"!", "#"}}

\* hash_password(p)
HashCall(p, salt) ==
    /\ stored' = [op |-> "hash", p |-> p, ret |-> hash_password(p, salt)]
    /\ lastCheck' = [op |-> "none"]
    /\ UNCHANGED <<appVars, rows, flowVars, swept, lastOp, now, config, subVars, jwtVars, guardVars>>

\* verify_password(q, digest) on the stored digest or on a malformed one
VerifyPwCall(q, digest) ==
    /\ stored.op = "hash"
    /\ digest = MalformedDigest \/ (stored.ret.ok /\ digest = stored.ret.val)
    /\ lastCheck' = [op |-> "verify", q |-> q, digest |-> digest,
                     ret |-> verify_password(q, digest)]
    /\ UNCHANGED <<appVars, rows, flowVars, swept, lastOp, now, config, subVars, jwtVars, guardVars, stored>>

NextPassword ==
    \/ \E p \in Passwords, salt \in Salts : HashCall(p, salt)
    \/ \E q \in Passwords : VerifyPwCall(q, MalformedDigest)
    \/ \E q \in Passwords : stored.op = "hash" /\ stored.ret.ok /\ VerifyPwCall(q, stored.ret.val)

SpecPassword == Init /\ [][NextPassword]_vars

\* ---------------------------------------------------------------- request guards (security.rs)
\* tokens are kept in sixtieths of a token, so that the refill of
\* requests_per_minute / 60.0 tokens per second is a whole number per second
SecondsPerMinute == 60

\* TokenBucket::new(capacity, requests_per_minute) at the current time
TokenBucket_new(capacity, requests_per_minute, clock) ==
    [present |-> TRUE, tokens |-> capacity * SecondsPerMinute, last_refill |-> clock,
     capacity |-> capacity, refill_rate |-> requests_per_minute]

\* variant: the bucket gains requests_per_minute tokens each second
refill_PerSecond(b, clock) ==
    IF clock >= b.last_refill
    THEN [b EXCEPT !.tokens = IF b.tokens + (clock - b.last_refill) * b.refill_rate * SecondsPerMinute
                                    < b.capacity * SecondsPerMinute
                                 THEN b.tokens + (clock - b.last_refill) * b.refill_rate * SecondsPerMinute
                                 ELSE b.capacity * SecondsPerMinute,
                    !.last_refill = clock]
    ELSE b

\* variant: the refill is added without the limit of the capacity
accrue_Unbounded(b, clock) ==
    [b EXCEPT !.tokens = b.tokens + (clock - b.last_refill) * b.refill_rate]

\* self.tokens = (self.tokens + elapsed.as_secs_f64() * self.refill_rate)
\* .min(self.capacity), for the elapsed time read at clock
accrue(b, clock) ==
    [b EXCEPT !.tokens = IF b.tokens + (clock - b.last_refill) * b.refill_rate
                              < b.capacity * SecondsPerMinute
                           THEN b.tokens + (clock - b.last_refill) * b.refill_rate
                           ELSE b.capacity * SecondsPerMinute]

\* variant: last_refill stays where it was
stamp_Stale(b, clock) == b

\* self.last_refill = SystemTime::now(), the clock read again
stamp(b, clock) == [b EXCEPT !.last_refill = clock]

\* try_take_token, first half, with both readings of the clock in the same
\* second: when last_refill.elapsed() is Ok, add elapsed * refill_rate up to
\* the capacity and move last_refill to now
refill(b, clock) ==
    IF clock >= b.last_refill
    THEN stamp(accrue(b, clock), clock)
    ELSE b

\* try_take_token, second half: the test tokens >= 1.0 and the debit
has_token(b) == b.tokens >= SecondsPerMinute
debit(b) == [b EXCEPT !.tokens = b.tokens - SecondsPerMinute]

\* variant: content of exactly the maximum length is refused
check_content_length_Strict(cfg, length) ==
    IF length >= cfg.max_content_length
    THEN Err("Content length exceeds maximum")
    ELSE Ok("unit")

\* check_content_length
check_content_length(cfg, length) ==
    IF length > cfg.max_content_length
    THEN Err("Content length exceeds maximum")
    ELSE Ok("unit")

\* calls of check_rate_limit begun so far
Started ==
    Cardinality({t \in Threads : threads[t].pc # "idle"}) +
    stats["10.0.0.1"].calls + stats["10.0.0.2"].calls

\* a thread enters check_rate_limit(ip) and reaches self.limiters.lock()
GuardCall(t, ip, maxCalls) ==
    /\ threads[t].pc = "idle"
    /\ Started < maxCalls
    /\ threads' = [threads EXCEPT ![t] = [pc |-> "lock", ip |-> ip]]
    /\ UNCHANGED <<appVars, rows, flowVars, swept, lastOp, now, config, subVars, jwtVars, credVars,
                   limiters, mutex, stats, guardConfig, lastGuard>>

\* variant: the thread goes on without holding the mutex
GuardLock_NoWait(t) ==
    /\ threads[t].pc = "lock"
    /\ threads' = [threads EXCEPT ![t].pc = "entry"]
    /\ UNCHANGED <<appVars, rows, flowVars, swept, lastOp, now, config, subVars, jwtVars, credVars,
                   limiters, mutex, stats, guardConfig, lastGuard>>

\* self.limiters.lock(): the thread goes on when the mutex is free
GuardLock(t) ==
    /\ threads[t].pc = "lock"
    /\ mutex = "free"
    /\ mutex' = t
    /\ threads' = [threads EXCEPT ![t].pc = "entry"]
    /\ UNCHANGED <<appVars, rows, flowVars, swept, lastOp, now, config, subVars, jwtVars, credVars,
                   limiters, stats, guardConfig, lastGuard>>

\* limiters.entry(ip).or_insert_with(TokenBucket::new)
GuardEntry(t) ==
    /\ threads[t].pc = "entry"
    /\ threads' = [threads EXCEPT ![t].pc = "refill"]
    /\ IF limiters[threads[t].ip].present
       THEN UNCHANGED <<limiters, stats>>
       ELSE /\ limiters' = [limiters EXCEPT ![threads[t].ip] =
                    TokenBucket_new(guardConfig.requests_per_minute,
                                    guardConfig.requests_per_minute, now)]
            /\ stats' = [stats EXCEPT ![threads[t].ip].created = now]
    /\ UNCHANGED <<appVars, rows, flowVars, swept, lastOp, now, config, subVars, jwtVars, credVars,
                   mutex, guardConfig, lastGuard>>

\* try_take_token: the refill, then the test of tokens >= 1.0
GuardRefill(t) ==
    /\ threads[t].pc = "refill"
    /\ limiters' = [limiters EXCEPT ![threads[t].ip] = refill(@, now)]
    /\ threads' = [threads EXCEPT ![t].pc =
                      IF has_token(refill(limiters[threads[t].ip], now))
                      THEN "debit" ELSE "reject"]
    /\ stats' = [stats EXCEPT ![threads[t].ip].last = now,
                              ![threads[t].ip].counted = stats[threads[t].ip].from >= 0,
                              ![threads[t].ip].skipped = now < limiters[threads[t].ip].last_refill]
    /\ UNCHANGED <<appVars, rows, flowVars, swept, lastOp, now, config, subVars, jwtVars, credVars,
                   mutex, guardConfig, lastGuard>>

\* the call is answered: its address counts one more call, at the time the
\* call read the clock; an admitted call counts for the interval observed
\* when it read the clock within it
Answered(s, ok) ==
    IF s.last = s.created
    THEN [s EXCEPT !.calls = @ + 1, !.burst = @ + 1,
                   !.burstOk = IF ok THEN @ + 1 ELSE @,
                   !.win = IF ok /\ s.counted THEN @ + 1 ELSE @]
    ELSE [s EXCEPT !.calls = @ + 1, !.late = @ + 1,
                   !.lateOk = IF ok THEN @ + 1 ELSE @,
                   !.lateFrom = IF s.late = 0 THEN s.last ELSE @,
                   !.win = IF ok /\ s.counted THEN @ + 1 ELSE @]

\* the mutex after the guard of thread t is dropped
Unlocked(t) == IF mutex = t THEN "free" ELSE mutex

\* variant: the token is taken from the bucket of every address
GuardDebit_Shared(t) ==
    /\ threads[t].pc = "debit"
    /\ limiters' = [a \in Addrs |->
                       IF limiters[a].present /\ has_token(limiters[a])
                       THEN debit(limiters[a]) ELSE limiters[a]]
    /\ stats' = [stats EXCEPT ![threads[t].ip] =
                    [Answered(@, TRUE) EXCEPT !.emptied =
                        IF has_token(debit(limiters[threads[t].ip])) THEN -1 ELSE now]]
    /\ mutex' = Unlocked(t)
    /\ threads' = [threads EXCEPT ![t] = Idle]
    /\ UNCHANGED <<appVars, rows, flowVars, swept, lastOp, now, config, subVars, jwtVars, credVars,
                   guardConfig, lastGuard>>

\* tokens -= 1.0, Ok(()), and the guard is dropped
GuardDebit(t) ==
    /\ threads[t].pc = "debit"
    /\ limiters' = [limiters EXCEPT ![threads[t].ip] = debit(@)]
    /\ stats' = [stats EXCEPT ![threads[t].ip] =
                    [Answered(@, TRUE) EXCEPT !.emptied =
                        IF has_token(debit(limiters[threads[t].ip])) THEN -1 ELSE now]]
    /\ mutex' = Unlocked(t)
    /\ threads' = [threads EXCEPT ![t] = Idle]
    /\ UNCHANGED <<appVars, rows, flowVars, swept, lastOp, now, config, subVars, jwtVars, credVars,
                   guardConfig, lastGuard>>

\* Err("Rate limit exceeded"), and the guard is dropped
GuardReject(t) ==
    /\ threads[t].pc = "reject"
    /\ stats' = [stats EXCEPT ![threads[t].ip] = Answered(@, FALSE)]
    /\ mutex' = Unlocked(t)
    /\ threads' = [threads EXCEPT ![t] = Idle]
    /\ UNCHANGED <<appVars, rows, flowVars, swept, lastOp, now, config, subVars, jwtVars, credVars,
                   limiters, guardConfig, lastGuard>>

\* content lengths a request may declare
ContentLengths ==
    {0, DefaultMaxContentLength - 1, DefaultMaxContentLength,
     DefaultMaxContentLength + 1, DefaultMaxContentLength + DefaultMaxContentLength}

\* check_content_length(length)
ContentCall(n) ==
    /\ lastGuard' = [op |-> "content", n |-> n,
                     ret |-> check_content_length(guardConfig, n)]
    /\ UNCHANGED <<appVars, rows, flowVars, swept, lastOp, now, config, subVars, jwtVars, credVars,
                   limiters, mutex, threads, stats, guardConfig>>

\* a second passes
GuardTick(maxTime) ==
    /\ now < maxTime
    /\ now' = now + 1
    /\ UNCHANGED <<appVars, rows, flowVars, swept, lastOp, config, subVars, jwtVars, extVars>>

\* one client and one worker, the default configuration
NextGuard ==
    \/ GuardCall("w1", "10.0.0.1", MaxCalls)
    \/ GuardLock("w1")
    \/ GuardEntry("w1")
    \/ GuardRefill("w1")
    \/ GuardDebit("w1")
    \/ GuardReject("w1")
    \/ GuardTick(MaxGuardTime)

SpecGuard == Init /\ [][NextGuard]_vars

\* configurations of SpecLock: a capacity small enough to be used up
GuardConfigs ==
    {[requests_per_minute |-> r, max_content_length |-> DefaultMaxContentLength] :
        r \in 0..MaxRpm}

InitLock ==
    /\ rows = <<>>
    /\ users = [u \in Users |-> "none"]
    /\ now = 0
    /\ config \in {[secret |-> "k1", access_token_expiry |-> 1,
                     refresh_token_expiry |-> t, issuer |-> "A"] : t \in {1}}
    /\ pc = [p \in Procs |-> "idle"]
    /\ req = [p \in Procs |-> NoReq]
    /\ rotations = {}
    /\ swept = {}
    /\ lastOp = [op |-> "none"]
    /\ issued = {}
    /\ lastVerify = [op |-> "none"]
    /\ stored = [op |-> "none"]
    /\ lastCheck = [op |-> "none"]
    /\ limiters = [a \in Addrs |-> NoBucket]
    /\ mutex = "free"
    /\ threads = [t \in Threads |-> Idle]
    /\ stats = [a \in Addrs |-> NoStats]
    /\ guardConfig \in GuardConfigs
    /\ lastGuard = [op |-> "none"]
    /\ served = [op |-> "none"]
    /\ accounts = <<>>
    /\ regs = [p \in Procs |-> [pc |-> "idle"]]
    /\ lastAuth = [op |-> "none"]
    /\ lastValid = [op |-> "none"]
    /\ subscriptions = [b \in Subscribers |-> "none"]
    /\ subscription_tokens = {}
    /\ confirms = [p \in Procs |-> [pc |-> "idle"]]
    /\ confirmLog = [issued |-> {}, ok |-> {}, last |-> [status |-> 0]]

\* workers serving clients at the same time
NextLock ==
    \/ \E t \in Threads, ip \in Addrs : GuardCall(t, ip, MaxLockCalls)
    \/ \E t \in Threads : GuardLock(t)
    \/ \E t \in Threads : GuardEntry(t)
    \/ \E t \in Threads : GuardRefill(t)
    \/ \E t \in Threads : GuardDebit(t)
    \/ \E t \in Threads : GuardReject(t)
    \/ \E n \in ContentLengths : ContentCall(n)
    \/ GuardTick(MaxTime)

SpecLock == InitLock /\ [][NextLock]_vars

\* try_take_token, the first reading of the clock: when
\* last_refill.elapsed() is Ok the elapsed time is added to the tokens and
\* the clock is still to be read again; when it is Err (last_refill is
\* later than the clock) the refill is skipped and the test follows
GuardElapsed(t) ==
    /\ threads[t].pc = "refill"
    /\ stats' = [stats EXCEPT ![threads[t].ip].last = now,
                              ![threads[t].ip].counted = stats[threads[t].ip].from >= 0,
                              ![threads[t].ip].skipped = now < limiters[threads[t].ip].last_refill]
    /\ IF now >= limiters[threads[t].ip].last_refill
       THEN /\ limiters' = [limiters EXCEPT ![threads[t].ip] = accrue(@, now)]
            /\ threads' = [threads EXCEPT ![t].pc = "stamp"]
       ELSE /\ threads' = [threads EXCEPT ![t].pc =
                              IF has_token(limiters[threads[t].ip])
                              THEN "debit" ELSE "reject"]
            /\ UNCHANGED limiters
    /\ UNCHANGED <<appVars, rows, flowVars, swept, lastOp, now, config, subVars, jwtVars, credVars,
                   mutex, guardConfig, lastGuard>>

\* try_take_token, the second reading of the clock: last_refill =
\* SystemTime::now(), then the test of tokens >= 1.0
GuardStamp(t) ==
    /\ threads[t].pc = "stamp"
    /\ limiters' = [limiters EXCEPT ![threads[t].ip] = stamp(@, now)]
    /\ threads' = [threads EXCEPT ![t].pc =
                      IF has_token(limiters[threads[t].ip])
                      THEN "debit" ELSE "reject"]
    /\ UNCHANGED <<appVars, rows, flowVars, swept, lastOp, now, config, subVars, jwtVars, credVars,
                   mutex, stats, guardConfig, lastGuard>>

\* an observer begins to count the calls admitted for address a
GuardMark(a) ==
    /\ stats[a].from = -1
    /\ stats' = [stats EXCEPT ![a].from = now, ![a].win = 0]
    /\ UNCHANGED <<appVars, rows, flowVars, swept, lastOp, now, config, subVars, jwtVars, credVars,
                   limiters, mutex, threads, guardConfig, lastGuard>>

\* the system clock is set back by a second; what was counted or timed by
\* the clock so far is dropped
GuardClockBack ==
    /\ now > 0
    /\ now' = now - 1
    /\ stats' = [a \in Addrs |-> [stats[a] EXCEPT !.emptied = -1, !.from = -1, !.win = 0,
                                           !.counted = FALSE]]
    /\ UNCHANGED <<appVars, rows, flowVars, swept, lastOp, config, subVars, jwtVars, credVars,
                   limiters, mutex, threads, guardConfig, lastGuard>>

\* one client and one worker, the default configuration, the two readings
\* of the clock in try_take_token taken one after the other
NextStamp ==
    \/ GuardCall("w1", "10.0.0.1", MaxCalls)
    \/ GuardLock("w1")
    \/ GuardEntry("w1")
    \/ GuardElapsed("w1")
    \/ GuardStamp("w1")
    \/ GuardDebit("w1")
    \/ GuardReject("w1")
    \/ GuardTick(MaxGuardTime)

SpecStamp == Init /\ [][NextStamp]_vars

\* the same, with an observer counting the admitted calls of an interval
NextWindow ==
    \/ NextStamp
    \/ GuardMark("10.0.0.1")

SpecWindow == Init /\ [][NextWindow]_vars

\* workers serving one client at the same time, under a clock that is also
\* set back
NextClock ==
    \/ \E t \in Threads : GuardCall(t, "10.0.0.1", MaxLockCalls)
    \/ \E t \in Threads : GuardLock(t)
    \/ \E t \in Threads : GuardEntry(t)
    \/ \E t \in Threads : GuardElapsed(t)
    \/ \E t \in Threads : GuardStamp(t)
    \/ \E t \in Threads : GuardDebit(t)
    \/ \E t \in Threads : GuardReject(t)
    \/ GuardTick(MaxTime)
    \/ GuardClockBack

SpecClock == InitLock /\ [][NextClock]_vars

\* ---------------------------------------------------------------- the HTTP server
\* startup::run: the routes of the App in the order of their registration:
\* the method a route is registered for, its handler, whether JwtMiddleware
\* wraps it, and whether the handler takes web::ReqData<Claims>.  Logger and
\* LoggerMiddleware wrap every route and pass every request on.
Route(method, path, handler, wrapped, claims) ==
    [method |-> method, path |-> path, handler |-> handler,
     wrapped |-> wrapped, claims |-> claims]
Routes ==
    {Route("GET", "/health_check", "health_check", FALSE, FALSE),
     Route("POST", "/auth/register", "register", FALSE, FALSE),
     Route("POST", "/auth/login", "login", FALSE, FALSE),
     Route("POST", "/auth/refresh", "refresh", FALSE, FALSE),
     Route("GET", "/api/me", "get_current_user", TRUE, TRUE),
     Route("GET", "/auth/me", "get_current_user", FALSE, TRUE),
     Route("POST", "/subscriptions", "subscribe", FALSE, FALSE),
     Route("GET", "/subscriptions/confirm", "confirm_subscription", FALSE, FALSE),
     Route("POST", "/newsletters/send-all", "send_newsletter_to_all", FALSE, FALSE),
     Route("POST", "/newsletters/send-confirmed", "send_newsletter_to_confirmed",
           FALSE, FALSE)}

\* a path no route is registered for goes to fs::Files::new("/", "./public")
Paths == {r.path : r \in Routes} \cup {"/index.html"}
Methods == {"GET", "POST"}

\* the answer of a resource to a method none of its routes is registered
\* for: 404 or 405, as the version of the framework has it
MethodMismatch == {404, 405}

\* web::ReqData<Claims> of a request without Claims in its extensions: the
\* extractor fails with 500 and the handler is not called
MissingReqData == [status |-> 500, body |-> "Missing expected request extension data"]

\* what the App does with one request: the handler it runs ("none" when it
\* runs none), the Claims injected into the request, and the answer of the
\* server when no handler runs
Refused(status_body) == [handler |-> "none", claims |-> {}, answer |-> status_body]
Handled(handler, claims) == [handler |-> handler, claims |-> claims,
                             answer |-> [by |-> "handler"]]

\* the service of one route: JwtMiddleware first where it wraps the route,
\* then the extractors of the handler, then the handler
App_service(route, request, cfg, clock) ==
    LET auth == IF route.wrapped
                THEN JwtMiddleware_call(request.header, cfg, clock)
                ELSE [status |-> 200]
        injected == IF route.wrapped /\ auth.status = 200 THEN {auth.claims} ELSE {}
    IN  IF auth.status # 200 THEN {Refused(auth)}
        ELSE IF route.claims /\ injected = {} THEN {Refused(MissingReqData)}
        ELSE {Handled(route.handler, injected)}

\* App: the first resource whose path matches takes the request
App_call(request, cfg, clock) ==
    LET at_path == {r \in Routes : r.path = request.path} IN
    IF at_path = {} THEN {Handled("Files", {})}
    ELSE LET matching == {r \in at_path : r.method = request.method} IN
         IF matching = {}
         THEN {Refused([status |-> s, body |-> ""]) : s \in MethodMismatch}
         ELSE UNION {App_service(r, request, cfg, clock) : r \in matching}

\* tokens a client may present: the ones issued to it, and ones it signs
\* itself with another secret
Forged(x) == [x EXCEPT !.token = generate_access_token(x.user_id, x.email,
                                    [config EXCEPT !.secret = "k2"], x.at)]
Presented == {x.token : x \in issued} \cup {Forged(x).token : x \in issued}
Headers == {NoHeader} \cup
           {AuthHeader(p, t) : p \in {"Bearer ", "Basic "}, t \in Presented}

\* content lengths at the two sides of the configured maximum
RequestLengths == {DefaultMaxContentLength, DefaultMaxContentLength + 1}

\* one request from the socket to its answer.  RateLimiterManager is neither
\* constructed nor called by run: limiters stays as it is
HttpRequest(method, path, header, ip, length) ==
    /\ served.op = "none"
    /\ LET request == [method |-> method, path |-> path, header |-> header,
                       ip |-> ip, length |-> length] IN
       \E out \in App_call(request, config, now) :
          served' = [op |-> "request", request |-> request, at |-> now, out |-> out]
    /\ UNCHANGED <<accounts, regs, lastAuth, lastValid, extVars, rows, flowVars,
                   swept, lastOp, now, config, subVars, jwtVars>>

\* the answer is on the wire; the server takes the next request
HttpDone ==
    /\ served.op # "none"
    /\ served' = [op |-> "none"]
    /\ UNCHANGED <<accounts, regs, lastAuth, lastValid, extVars, rows, flowVars,
                   swept, lastOp, now, config, subVars, jwtVars>>

NextApp ==
    \/ \E u \in Users, e \in Emails : issued = {} /\ served.op = "none" /\ IssueToken(u, e)
    \/ \E m \in Methods, p \in Paths, h \in Headers, a \in Addrs, n \in RequestLengths :
          HttpRequest(m, p, h, a, n)
    \/ HttpDone
    \/ \E d \in {1, Leeway} : served.op = "none" /\ JwtTick(d)

SpecApp == InitJwt /\ [][NextApp]_vars

\* ---------------------------------------------------------------- input validators
\* a string is the sequence of its characters; ASCII characters stand for
\* themselves ("backtick" for the grave accent), "TAB", "NUL" and "BEL" for
\* the control characters, "e-acute" and "one-half" for characters outside
\* ASCII
MAX_EMAIL_LENGTH == 254
MAX_NAME_LENGTH == 256
MIN_EMAIL_LENGTH == 5
MIN_NAME_LENGTH == 1

UpperCase == <<"A", "B", "C", "D", "E", "F", "G", "H", "I", "J", "K", "L", "M", "N", "O", "P", "Q", "R", "S", "T", "U", "V", "W", "X", "Y", "Z">>
LowerCase == <<"a", "b", "c", "d", "e", "f", "g", "h", "i", "j", "k", "l", "m", "n", "o", "p", "q", "r", "s", "t", "u", "v", "w", "x", "y", "z">>
AsciiDigits == {"0", "1", "2", "3", "4", "5", "6", "7", "8", "9"}
AsciiAlnum ==
    {UpperCase[i] : i \in DOMAIN UpperCase} \cup {LowerCase[i] : i \in DOMAIN LowerCase}
        \cup AsciiDigits

\* char::is_whitespace, char::is_control, char::is_alphanumeric
is_whitespace(c) == c \in {" ", "TAB"}
is_control(c) == c \in {"NUL", "TAB", "BEL"}
is_alphanumeric(c) == c \in AsciiAlnum \cup {"e-acute", "one-half"}

\* str::trim: the string without its leading and trailing whitespace
trim(s) ==
    LET kept == {i \in DOMAIN s : ~is_whitespace(s[i])} IN
    IF kept = {} THEN <<>>
    ELSE SubSeq(s, CHOOSE i \in kept : \A k \in kept : i <= k,
                   CHOOSE j \in kept : \A k \in kept : k <= j)

\* ValidationError::EmptyField, SuspiciousContent, PossibleSQLInjection
EmptyField(field) == [kind |-> "Validation", variant |-> "EmptyField", msg |-> field]
SuspiciousContent(field) ==
    [kind |-> "Validation", variant |-> "SuspiciousContent", msg |-> field]
PossibleSQLInjection ==
    [kind |-> "Validation", variant |-> "PossibleSQLInjection", msg |-> ""]

\* regex: the letter a pattern under (?i) compares
fold(c) ==
    IF \E i \in DOMAIN UpperCase : UpperCase[i] = c
    THEN LowerCase[CHOOSE i \in DOMAIN UpperCase : UpperCase[i] = c]
    ELSE c

\* regex: the literal w matches s at position i, as written or under (?i)
MatchAt(s, i, w) ==
    /\ i >= 1
    /\ i + Len(w) - 1 <= Len(s)
    /\ \A k \in DOMAIN w : s[i + k - 1] = w[k]
MatchAtCI(s, i, w) ==
    /\ i >= 1
    /\ i + Len(w) - 1 <= Len(s)
    /\ \A k \in DOMAIN w : fold(s[i + k - 1]) = fold(w[k])
ContainsCI(s, w) == \E i \in DOMAIN s : MatchAtCI(s, i, w)

\* regex: \s, \w and \b; the positions a run \s* or [0-9]* begun at i can
\* end before
is_word(c) == is_alphanumeric(c) \/ c = "_"
Boundary(s, i) ==
    LET word_at(k) == k >= 1 /\ k <= Len(s) /\ is_word(s[k]) IN
    word_at(i - 1) # word_at(i)
SpaceRun(s, i) == {j \in i..(Len(s) + 1) : \A k \in i..(j - 1) : is_whitespace(s[k])}
DigitRun(s, i) == {j \in i..(Len(s) + 1) : \A k \in i..(j - 1) : s[k] \in AsciiDigits}
Quotes == {"'", "\""}

\* SQL_INJECTION_PATTERNS[0]: (?i)\s+UNION\s+
UnionPattern(s) ==
    \E i \in DOMAIN s :
        /\ MatchAtCI(s, i, <<"U", "N", "I", "O", "N">>)
        /\ i > 1 /\ is_whitespace(s[i - 1])
        /\ i + 5 <= Len(s) /\ is_whitespace(s[i + 5])

\* SQL_INJECTION_PATTERNS[1]: (--|;|/\*|\*/|xp_|sp_)
CommentPattern(s) ==
    \E i \in DOMAIN s, w \in
            {<<"-", "-">>, <<";">>, <<"/", "*">>, <<"*", "/">>, <<"x", "p", "_">>, <<"s", "p", "_">>} : MatchAt(s, i, w)

\* SQL_INJECTION_PATTERNS[2]: (?i);\s*(INSERT|UPDATE|DELETE|DROP|CREATE|ALTER)
StackedPattern(s) ==
    \E i \in DOMAIN s :
        /\ s[i] = ";"
        /\ \E j \in SpaceRun(s, i + 1), w \in
            {<<"I", "N", "S", "E", "R", "T">>, <<"U", "P", "D", "A", "T", "E">>, <<"D", "E", "L", "E", "T", "E">>, <<"D", "R", "O", "P">>, <<"C", "R", "E", "A", "T", "E">>, <<"A", "L", "T", "E", "R">>} : MatchAtCI(s, j, w)

\* SQL_INJECTION_PATTERNS[3]: (?i)(SLEEP|WAITFOR|BENCHMARK|DBMS_LOCK)
TimePattern(s) == \E w \in
            {<<"S", "L", "E", "E", "P">>, <<"W", "A", "I", "T", "F", "O", "R">>, <<"B", "E", "N", "C", "H", "M", "A", "R", "K">>, <<"D", "B", "M", "S", "_", "L", "O", "C", "K">>} : ContainsCI(s, w)

\* SQL_INJECTION_PATTERNS[4]:
\* (?i)(\bOR\b|\bAND\b)\s*(['"][0-9]*['"]|[0-9]*)\s*=\s*(['"][0-9]*['"]|[0-9]*|True|False)
\* the operand before "=" is quoted digits or bare digits, possibly none;
\* the last group matches the empty string, so the match ends at "="
Operand(s, i) ==
    LET quoted == IF i <= Len(s) /\ s[i] \in Quotes
                  THEN {j + 1 : j \in {k \in DigitRun(s, i + 1) :
                                          k <= Len(s) /\ s[k] \in Quotes}}
                  ELSE {}
    IN  quoted \cup DigitRun(s, i)
BooleanPattern(s) ==
    \E i \in DOMAIN s, w \in
            {<<"O", "R">>, <<"A", "N", "D">>} :
        /\ MatchAtCI(s, i, w)
        /\ Boundary(s, i)
        /\ Boundary(s, i + Len(w))
        /\ \E j1 \in SpaceRun(s, i + Len(w)) :
           \E j2 \in Operand(s, j1) :
           \E j3 \in SpaceRun(s, j2) : j3 <= Len(s) /\ s[j3] = "="

\* SQL_INJECTION_PATTERNS[5]: (?i)(CAST|CONVERT|SUBSTRING|CONCAT|LOAD_FILE)
FunctionPattern(s) == \E w \in
            {<<"C", "A", "S", "T">>, <<"C", "O", "N", "V", "E", "R", "T">>, <<"S", "U", "B", "S", "T", "R", "I", "N", "G">>, <<"C", "O", "N", "C", "A", "T">>, <<"L", "O", "A", "D", "_", "F", "I", "L", "E">>} : ContainsCI(s, w)

\* contains_sql_injection_patterns: any pattern matches
contains_sql_injection_patterns(input) ==
    \/ UnionPattern(input)
    \/ CommentPattern(input)
    \/ StackedPattern(input)
    \/ TimePattern(input)
    \/ BooleanPattern(input)
    \/ FunctionPattern(input)

\* EMAIL_REGEX: ^local@label(\.label)*$ with local of one or more of
\* LocalChars and each label of 1 to 63 letters, digits and "-", neither
\* first nor last a "-"
LocalChars == AsciiAlnum \cup
    {".", "!", "#", "$", "%", "&", "'", "*", "+", "/", "=", "?", "^", "_", "backtick",
     "{", "|", "}", "~", "-"}
LabelMax == 63
DomainMatch(d) ==
    /\ Len(d) >= 1
    /\ d[1] \in AsciiAlnum
    /\ d[Len(d)] \in AsciiAlnum
    /\ \A i \in DOMAIN d :
          /\ d[i] \in AsciiAlnum \cup {"-", "."}
          /\ d[i] = "." => (d[i - 1] \in AsciiAlnum /\ d[i + 1] \in AsciiAlnum)
          /\ i + LabelMax <= Len(d) => \E k \in i..(i + LabelMax) : d[k] = "."
EMAIL_REGEX(s) ==
    LET ats == {i \in DOMAIN s : s[i] = "@"} IN
    /\ Cardinality(ats) = 1
    /\ LET a == CHOOSE i \in ats : TRUE IN
       /\ a > 1
       /\ \A i \in 1..(a - 1) : s[i] \in LocalChars
       /\ DomainMatch(SubSeq(s, a + 1, Len(s)))

\* has_suspicious_email_patterns: a local part of more than 64 bytes, a
\* number of "@" other than one, a NUL
LocalPartMax == 64
has_suspicious_email_patterns(email) ==
    LET ats == {i \in DOMAIN email : email[i] = "@"} IN
    \/ ats # {} /\ str_len(SubSeq(email, 1, (CHOOSE i \in ats : \A k \in ats : i <= k) - 1))
                      > LocalPartMax
    \/ Cardinality(ats) # 1
    \/ \E i \in DOMAIN email : email[i] = "NUL"

\* is_valid_email
is_valid_email(email) ==
    LET trimmed == trim(email) IN
    IF trimmed = <<>> THEN Err(EmptyField("email"))
    ELSE IF str_len(trimmed) < MIN_EMAIL_LENGTH
    THEN Err(TooShort("email", MIN_EMAIL_LENGTH))
    ELSE IF str_len(trimmed) > MAX_EMAIL_LENGTH
    THEN Err(TooLong("email", MAX_EMAIL_LENGTH))
    ELSE IF ~EMAIL_REGEX(trimmed) THEN Err(InvalidFormat("email"))
    ELSE IF has_suspicious_email_patterns(trimmed) THEN Err(SuspiciousContent("email"))
    ELSE IF contains_sql_injection_patterns(trimmed) THEN Err(PossibleSQLInjection)
    ELSE Ok(trimmed)

SpecialCharMax == 5

\* variant: the count of special characters is tested with >=
has_suspicious_name_patterns_AtLeast(name) ==
    \/ \E i \in DOMAIN name : name[i] = "NUL"
    \/ \E i \in DOMAIN name : is_control(name[i])
    \/ Cardinality({i \in DOMAIN name :
            ~is_alphanumeric(name[i]) /\ ~is_whitespace(name[i])
               /\ name[i] \notin {"-", ".", "_", "'"}}) >= SpecialCharMax

\* has_suspicious_name_patterns: a NUL, a control character, or more than
\* five special characters
has_suspicious_name_patterns(name) ==
    \/ \E i \in DOMAIN name : name[i] = "NUL"
    \/ \E i \in DOMAIN name : is_control(name[i])
    \/ Cardinality({i \in DOMAIN name :
            ~is_alphanumeric(name[i]) /\ ~is_whitespace(name[i])
               /\ name[i] \notin {"-", ".", "_", "'"}}) > SpecialCharMax

\* is_valid_name
is_valid_name(name) ==
    LET trimmed == trim(name) IN
    IF trimmed = <<>> THEN Err(EmptyField("name"))
    ELSE IF str_len(trimmed) < MIN_NAME_LENGTH
    THEN Err(TooShort("name", MIN_NAME_LENGTH))
    ELSE IF str_len(trimmed) > MAX_NAME_LENGTH
    THEN Err(TooLong("name", MAX_NAME_LENGTH))
    ELSE IF has_suspicious_name_patterns(trimmed) THEN Err(SuspiciousContent("name"))
    ELSE IF contains_sql_injection_patterns(trimmed) THEN Err(PossibleSQLInjection)
    ELSE Ok(trimmed)

\* inputs of the validators: a string of n times the character c
Repeat(c, n) == [i \in 1..n |-> c]

\* local parts and domains the email samples are put together from: the
\* ones of the tests of validators.rs, ones at the length limits, and ones
\* holding a pattern of the injection battery in characters EMAIL_REGEX admits
EmailLocals ==
    {<<"u", "s", "e", "r">>,
     <<"t", "e", "s", "t", ".", "e", "m", "a", "i", "l">>,
     <<"u", "s", "e", "r", "+", "t", "a", "g">>,
     <<"u", "s", "e", "r", "'", " ", "O", "R", " ", "'", "1", "'", "=", "'", "1">>,
     <<"u", "s", "e", "r", ";", " ", "D", "R", "O", "P", " ", "T", "A", "B", "L", "E">>,
     <<"a", " ", "u", "n", "i", "o", "n", " ", "b">>,
     <<"s", "l", "e", "e", "p">>,
     <<"a", "-", "-", "b">>,
     <<"o", "r", "=", "1">>,
     <<"a", "n", "d", "=", "'", "1", "'", "=">>,
     <<"o", "'", "b", "r", "i", "e", "n">>,
     <<"x">>,
     <<>>,
     <<"u", "s", "e", "r", "@">>,
     <<"e-acute">>} \cup
    {Repeat("a", n) : n \in {LocalPartMax, LocalPartMax + 1, MAX_EMAIL_LENGTH - 4}}
EmailDomains ==
    {<<"e", "x", "a", "m", "p", "l", "e", ".", "c", "o", "m">>,
     <<"d", "o", "m", "a", "i", "n", ".", "c", "o", ".", "u", "k">>,
     <<"a", ".", "c", "o", "m">>,
     <<"b">>,
     <<"-", "x", ".", "i", "o">>,
     <<"x", ".", ".", "i", "o">>,
     <<>>} \cup
    {Repeat("a", n) \o <<".", "i", "o">> : n \in {LabelMax, LabelMax + 1}}
Pads == {<<>>, <<" ">>, <<"TAB", " ">>}
EmailInputs ==
    {pad \o l \o <<"@">> \o d \o pad :
        pad \in Pads, l \in EmailLocals, d \in EmailDomains} \cup Pads

\* names: the ones of the tests, ones at the length limit in characters of
\* one and of two bytes, and ones with zero to seven special characters
NameBodies ==
    {<<"J", "o", "h", "n", " ", "D", "o", "e">>,
     <<"J", "e", "a", "n", "-", "P", "i", "e", "r", "r", "e">>,
     <<"O", "'", "B", "r", "i", "e", "n">>,
     <<"J", "o", "h", "n", "'", ";", " ", "D", "R", "O", "P", " ", "T", "A", "B", "L", "E", " ", "s", "u", "b", "s", "c", "r", "i", "b", "e", "r", "s", "-", "-">>,
     <<"N", "a", "m", "e", " ", "U", "N", "I", "O", "N", " ", "S", "E", "L", "E", "C", "T", " ", "*">>,
     <<"N", "a", "m", "e", "NUL", "w", "i", "t", "h", "NUL", "n", "u", "l", "l">>,
     <<"!", "!", "!", "!", "!", "!", "@", "@", "@", "@">>,
     <<>>,
     <<"C", "a", "s", "t", "i", "l", "l", "o">>,
     <<"J", "o", "s", "e-acute">>,
     <<"B", "o", "b", "BEL">>,
     <<"B", "o", "b", "TAB", "S", "m", "i", "t", "h">>,
     <<"x", " ", "O", "R", " ", "1", "=", "1">>,
     <<"a", "=", "b">>,
     <<"A", "l", "_", ".", "-", "'">>} \cup
    {Repeat("a", n) : n \in {MAX_NAME_LENGTH, MAX_NAME_LENGTH + 1}} \cup
    {Repeat("e-acute", n) : n \in {MAX_NAME_LENGTH \div 2, (MAX_NAME_LENGTH \div 2) + 1}} \cup
    {<<"A", "l">> \o Repeat("!", n) : n \in 0..(SpecialCharMax + 2)}
NameInputs == {pad \o b \o pad : pad \in Pads, b \in NameBodies}

\* is_valid_email(s), is_valid_name(s): one call at a time
EmailCall(s) ==
    /\ lastValid.op = "none"
    /\ lastValid' = [op |-> "email", arg |-> s, ret |-> is_valid_email(s)]
    /\ UNCHANGED <<served, accounts, regs, lastAuth, extVars, rows, flowVars, swept,
                   lastOp, now, config, subVars, jwtVars>>

NameCall(s) ==
    /\ lastValid.op = "none"
    /\ lastValid' = [op |-> "name", arg |-> s, ret |-> is_valid_name(s)]
    /\ UNCHANGED <<served, accounts, regs, lastAuth, extVars, rows, flowVars, swept,
                   lastOp, now, config, subVars, jwtVars>>

\* the validator returns to its caller
ValidReturn ==
    /\ lastValid.op # "none"
    /\ lastValid' = [op |-> "none"]
    /\ UNCHANGED <<served, accounts, regs, lastAuth, extVars, rows, flowVars, swept,
                   lastOp, now, config, subVars, jwtVars>>

NextValid ==
    \/ \E s \in EmailInputs : EmailCall(s)
    \/ \E s \in NameInputs : NameCall(s)
    \/ ValidReturn

SpecValid == Init /\ [][NextValid]_vars

\* ---------------------------------------------------------------- register and login (routes/auth.rs)
\* sqlx::Error of a statement: its text, as the phrases From looks for
SqlxError(text, phrases) == [text |-> text, phrases |-> phrases]
UniqueViolation ==
    SqlxError("duplicate key value violates unique constraint",
              {"duplicate key", "unique constraint"})

\* variant: a violated constraint is taken for an unexpected error
From_sqlx_Error_Unexpected(err) ==
    IF "no rows" \in err.phrases THEN NotFound
    ELSE IF "pool" \in err.phrases \/ "connect" \in err.phrases
    THEN ConnectionPool(err.text)
    ELSE UnexpectedError(err.text)

\* From<sqlx::Error> for AppError
From_sqlx_Error(err) ==
    IF "duplicate key" \in err.phrases \/ "unique constraint" \in err.phrases
    THEN UniqueConstraintViolation("Email already registered")
    ELSE IF "no rows" \in err.phrases THEN NotFound
    ELSE IF "pool" \in err.phrases \/ "connect" \in err.phrases
    THEN ConnectionPool(err.text)
    ELSE UnexpectedError(err.text)

\* Uuid::new_v4: an id no row and no request holds; ids are interchangeable,
\* so the first free one is taken
new_v4(used) ==
    IF Users \ used = {} THEN {} ELSE {CHOOSE u \in Users \ used : TRUE}

\* INSERT INTO users (id, email, name, password_hash, ..): the table refuses
\* a second row with the same email; is_active defaults to true
users_insert(tbl, id, email, name, password_hash) ==
    IF \E i \in DOMAIN tbl : tbl[i].email = email
    THEN Err(UniqueViolation)
    ELSE Ok(Append(tbl, [id |-> id, email |-> email, name |-> name,
                         password_hash |-> password_hash, is_active |-> TRUE]))

\* SELECT .. FROM users WHERE email = $1, fetch_optional
users_by_email(tbl, email) == {tbl[i] : i \in {k \in DOMAIN tbl : tbl[k].email = email}}

\* what a handler leaves behind: its response and the two tables
Outcome(response, tbl, toks) == [response |-> response, accounts |-> tbl, rows |-> toks]

\* HttpResponse::Created() / Ok() with AuthResponse
AuthResponse(status, access_token, refresh_token, cfg) ==
    [status |-> status,
     body |-> [access_token |-> access_token, refresh_token |-> refresh_token,
               token_type |-> "Bearer", expires_in |-> cfg.access_token_expiry]]

\* register, first part: the three validations
register_validate(form, salt) ==
    LET email == is_valid_email(form.email) IN
    IF ~email.ok THEN email
    ELSE LET name == is_valid_name(form.name) IN
         IF ~name.ok THEN name
         ELSE LET password_hash == hash_password(form.password, salt) IN
              IF ~password_hash.ok THEN password_hash
              ELSE Ok([email |-> email.val, name |-> name.val,
                       password_hash |-> password_hash.val])

\* register, last part: the tokens of the new user
register_tokens(tbl, toks, id, email, cfg, clock) ==
    {Outcome(AuthResponse(201, generate_access_token(id, email, cfg, clock), t, cfg),
             tbl,
             save_refresh_token(toks, id, t, cfg.refresh_token_expiry, clock)) :
        t \in generate_refresh_token(toks)}

\* register
register(form, tbl, toks, cfg, clock, salt, id) ==
    LET checked == register_validate(form, salt) IN
    IF ~checked.ok THEN {Outcome(error_response(checked.err), tbl, toks)}
    ELSE LET ins == users_insert(tbl, id, checked.val.email, checked.val.name,
                                 checked.val.password_hash) IN
         IF ~ins.ok THEN {Outcome(error_response(From_sqlx_Error(ins.err)), tbl, toks)}
         ELSE register_tokens(ins.val, toks, id, checked.val.email, cfg, clock)

\* variant: an unknown email is told apart from a wrong password
login_UnknownEmail(form, tbl, toks, cfg, clock) ==
    LET email == is_valid_email(form.email) IN
    IF ~email.ok THEN {Outcome(error_response(email.err), tbl, toks)}
    ELSE LET found == users_by_email(tbl, email.val) IN
    IF found = {}
    THEN {Outcome(error_response(InvalidFormat("Unknown email")), tbl, toks)}
    ELSE LET user == CHOOSE u \in found : TRUE IN
    IF ~user.is_active
    THEN {Outcome(error_response(InvalidFormat("Account is inactive")), tbl, toks)}
    ELSE LET password_valid == verify_password(form.password, user.password_hash) IN
    IF ~password_valid.ok
    THEN {Outcome(error_response(password_valid.err), tbl, toks)}
    ELSE IF ~password_valid.val
    THEN {Outcome(error_response(InvalidFormat("Invalid email or password")), tbl, toks)}
    ELSE {Outcome(AuthResponse(200, generate_access_token(user.id, user.email, cfg, clock),
                               t, cfg),
                  tbl,
                  save_refresh_token(toks, user.id, t, cfg.refresh_token_expiry, clock)) :
             t \in generate_refresh_token(toks)}

\* variant: the result of verify_password is not looked at
login_AnyPassword(form, tbl, toks, cfg, clock) ==
    LET email == is_valid_email(form.email) IN
    IF ~email.ok THEN {Outcome(error_response(email.err), tbl, toks)}
    ELSE LET found == users_by_email(tbl, email.val) IN
    IF found = {}
    THEN {Outcome(error_response(InvalidFormat("Invalid email or password")), tbl, toks)}
    ELSE LET user == CHOOSE u \in found : TRUE IN
    IF ~user.is_active
    THEN {Outcome(error_response(InvalidFormat("Account is inactive")), tbl, toks)}
    ELSE LET password_valid == verify_password(form.password, user.password_hash) IN
    IF ~password_valid.ok
    THEN {Outcome(error_response(password_valid.err), tbl, toks)}
    ELSE {Outcome(AuthResponse(200, generate_access_token(user.id, user.email, cfg, clock),
                               t, cfg),
                  tbl,
                  save_refresh_token(toks, user.id, t, cfg.refresh_token_expiry, clock)) :
             t \in generate_refresh_token(toks)}

\* login
login(form, tbl, toks, cfg, clock) ==
    LET email == is_valid_email(form.email) IN
    IF ~email.ok THEN {Outcome(error_response(email.err), tbl, toks)}
    ELSE LET found == users_by_email(tbl, email.val) IN
    IF found = {}
    THEN {Outcome(error_response(InvalidFormat("Invalid email or password")), tbl, toks)}
    ELSE LET user == CHOOSE u \in found : TRUE IN
    IF ~user.is_active
    THEN {Outcome(error_response(InvalidFormat("Account is inactive")), tbl, toks)}
    ELSE LET password_valid == verify_password(form.password, user.password_hash) IN
    IF ~password_valid.ok
    THEN {Outcome(error_response(password_valid.err), tbl, toks)}
    ELSE IF ~password_valid.val
    THEN {Outcome(error_response(InvalidFormat("Invalid email or password")), tbl, toks)}
    ELSE {Outcome(AuthResponse(200, generate_access_token(user.id, user.email, cfg, clock),
                               t, cfg),
                  tbl,
                  save_refresh_token(toks, user.id, t, cfg.refresh_token_expiry, clock)) :
             t \in generate_refresh_token(toks)}

\* the forms of the model: two addresses, one of them also with whitespace
\* before it, and one too short; a name and no name; two passwords that
\* meet the policy and one without a digit
AuthEmails == {<<"a", "@", "x", ".", "i", "o">>, <<"b", "@", "x", ".", "i", "o">>, <<" ", "a", "@", "x", ".", "i", "o">>, <<"a", "@", "b">>}
AuthNames == {<<"A", "l">>, <<>>}
AuthPasswords == {<<"A", "a", "1", "!", "!", "!", "!", "!">>,
                  <<"A", "a", "1", "!", "!", "!", "!", "#">>,
                  <<"A", "a", "!", "!", "!", "!", "!", "!">>}
RegisterForms == [email : AuthEmails, name : AuthNames, password : AuthPasswords]
LoginForms == [email : AuthEmails, password : AuthPasswords]

AccountIds(tbl) == {tbl[i].id : i \in DOMAIN tbl}

\* POST /auth/register, from the request to its answer
RegisterCall(form, salt) ==
    /\ lastAuth.op = "none"
    /\ \E id \in new_v4(AccountIds(accounts)) :
       \E out \in register(form, accounts, rows, config, now, salt, id) :
          /\ accounts' = out.accounts
          /\ rows' = out.rows
          /\ lastAuth' = [op |-> "register", form |-> form, accounts |-> accounts,
                          rows |-> rows, salt |-> salt, id |-> id,
                          response |-> out.response]
    /\ UNCHANGED <<served, regs, lastValid, extVars, flowVars, swept, lastOp, now,
                   config, subVars, jwtVars>>

\* POST /auth/login, from the request to its answer
LoginCall(form) ==
    /\ lastAuth.op = "none"
    /\ \E out \in login(form, accounts, rows, config, now) :
          /\ rows' = out.rows
          /\ lastAuth' = [op |-> "login", form |-> form, accounts |-> accounts,
                          rows |-> rows, response |-> out.response]
    /\ UNCHANGED <<served, accounts, regs, lastValid, extVars, flowVars, swept, lastOp,
                   now, config, subVars, jwtVars>>

\* users.is_active set to false outside the routes (no route writes it)
DeactivateAccount(i) ==
    /\ lastAuth.op = "none"
    /\ i \in DOMAIN accounts
    /\ accounts[i].is_active
    /\ accounts' = [accounts EXCEPT ![i].is_active = FALSE]
    /\ UNCHANGED <<served, regs, lastAuth, lastValid, extVars, rows, flowVars, swept,
                   lastOp, now, config, subVars, jwtVars>>

\* the answer is on the wire
AuthDone ==
    /\ lastAuth.op # "none"
    /\ lastAuth' = [op |-> "none"]
    /\ UNCHANGED <<served, accounts, regs, lastValid, extVars, rows, flowVars, swept,
                   lastOp, now, config, subVars, jwtVars>>

NextAuth ==
    \/ \E form \in RegisterForms, salt \in Salts : RegisterCall(form, salt)
    \/ \E form \in LoginForms : LoginCall(form)
    \/ \E i \in 1..Cardinality(Users) : DeactivateAccount(i)
    \/ AuthDone

SpecAuth == Init /\ [][NextAuth]_vars

\* ---------------------------------------------------------------- concurrent register requests
\* POST /auth/register on several workers at once.  A handler runs alone up
\* to each statement it awaits; the database runs each statement as a whole.
\* regs[p] is the request worker p serves: its form, whether a user held its
\* email when it arrived, the rows it has inserted, and its answer.
\* the request arrives; the validations and the hashing run
RegisterBegin(p, form, salt) ==
    /\ regs[p].pc = "idle"
    /\ LET checked == register_validate(form, salt)
           arrived == [form |-> form,
                       held |-> \E i \in DOMAIN accounts :
                                    accounts[i].email = trim(form.email),
                       user_rows |-> 0, token_rows |-> 0]
       IN  regs' = [regs EXCEPT ![p] =
                IF checked.ok
                THEN [pc |-> "insert", checked |-> checked.val] @@ arrived
                ELSE [pc |-> "done", response |-> error_response(checked.err)] @@ arrived]
    /\ UNCHANGED <<served, accounts, lastAuth, lastValid, extVars, rows, flowVars,
                   swept, lastOp, now, config, subVars, jwtVars>>

\* Uuid::new_v4 and INSERT INTO users: the row is in the table, or the
\* error of the statement is the answer
RegisterInsert(p) ==
    /\ regs[p].pc = "insert"
    /\ \E id \in new_v4(AccountIds(accounts)) :
       LET r == regs[p]
           ins == users_insert(accounts, id, r.checked.email, r.checked.name,
                               r.checked.password_hash)
       IN  IF ins.ok
           THEN /\ accounts' = ins.val
                /\ regs' = [regs EXCEPT ![p] =
                              [pc |-> "save", form |-> r.form, held |-> r.held,
                               user_rows |-> Len(ins.val) - Len(accounts),
                               token_rows |-> 0, id |-> id,
                               email |-> r.checked.email]]
           ELSE /\ accounts' = accounts
                /\ regs' = [regs EXCEPT ![p] =
                              [pc |-> "done", form |-> r.form, held |-> r.held,
                               user_rows |-> 0, token_rows |-> 0,
                               response |-> error_response(From_sqlx_Error(ins.err))]]
    /\ UNCHANGED <<served, lastAuth, lastValid, extVars, rows, flowVars, swept,
                   lastOp, now, config, subVars, jwtVars>>

\* the tokens of the new user, save_refresh_token, and the answer 201
RegisterSave(p) ==
    /\ regs[p].pc = "save"
    /\ LET r == regs[p] IN
       \E out \in register_tokens(accounts, rows, r.id, r.email, config, now) :
          /\ rows' = out.rows
          /\ regs' = [regs EXCEPT ![p] =
                        [pc |-> "done", form |-> r.form, held |-> r.held,
                         user_rows |-> r.user_rows,
                         token_rows |-> Len(out.rows) - Len(rows),
                         response |-> out.response]]
    /\ UNCHANGED <<served, accounts, lastAuth, lastValid, extVars, flowVars, swept,
                   lastOp, now, config, subVars, jwtVars>>

\* the answer is on the wire; the worker takes the next request
RegisterDone(p) ==
    /\ regs[p].pc = "done"
    /\ regs' = [regs EXCEPT ![p] = [pc |-> "idle"]]
    /\ UNCHANGED <<served, accounts, lastAuth, lastValid, extVars, rows, flowVars,
                   swept, lastOp, now, config, subVars, jwtVars>>

\* every request hashes with the same salt here: the salt reaches the stored
\* hash only, which register never reads
NextRegister ==
    \/ \E p \in Procs, form \in RegisterForms :
          RegisterBegin(p, form, CHOOSE salt \in Salts : TRUE)
    \/ \E p \in Procs : RegisterInsert(p)
    \/ \E p \in Procs : RegisterSave(p)
    \/ \E p \in Procs : RegisterDone(p)

SpecRegister == Init /\ [][NextRegister]_vars

\* ---------------------------------------------------------------- subscription and confirmation (routes/subscriptions.rs, routes/confirmation.rs)
\* the clock of SpecConfirm counts days: Duration::days(1)
ConfirmationDays == 1

\* Uuid::to_string(): the text under which a subscriber id is stored in
\* subscription_tokens and compared with subscriptions.id
UuidText == [b \in Subscribers |-> IF b = "b1" THEN "0000-b1" ELSE "0000-b2"]

\* ConfirmationToken::new(subscriber_id), with the Uuid drawn for the token
ConfirmationToken_new(subscriber_id, token, clock) ==
    [token |-> token, subscriber_id |-> subscriber_id,
     created_at |-> clock, expires_at |-> clock + ConfirmationDays]

\* INSERT INTO subscription_tokens (subscription_token, subscriber_id,
\* created_at, expires_at)
save_confirmation_token(tbl, subscriber_id, token) ==
    tbl \cup {[subscription_token |-> token.token,
               subscriber_id |-> UuidText[subscriber_id],
               created_at |-> token.created_at,
               expires_at |-> token.expires_at]}

\* POST /subscriptions with a name and an email that pass validation and
\* an email not subscribed yet: a new subscriber with status pending and a
\* new confirmation token, whose link is mailed
Subscribe(b, tok) ==
    /\ subscriptions[b] = "none"
    /\ tok \notin confirmLog.issued
    /\ subscriptions' = [subscriptions EXCEPT ![b] = "pending"]
    /\ subscription_tokens' =
          save_confirmation_token(subscription_tokens, b,
                                  ConfirmationToken_new(b, tok, now))
    /\ confirmLog' = [confirmLog EXCEPT !.issued = @ \cup {tok}]
    /\ UNCHANGED <<appVars, extVars, rows, flowVars, swept, lastOp, now, config, jwtVars,
                   confirms>>

\* SELECT subscriber_id FROM subscription_tokens WHERE subscription_token =
\* $1 AND expires_at > NOW(), fetch_optional: the rows it can return
get_subscriber_id_from_token(tbl, token, clock) ==
    LET found == {r \in tbl : r.subscription_token = token /\ r.expires_at > clock}
    IN IF found = {}
       THEN {[some |-> FALSE]}
       ELSE {[some |-> TRUE, val |-> r.subscriber_id] : r \in found}

\* GET /subscriptions/confirm?token=..: the lookup of the token; Ok(None)
\* is answered 400
ConfirmLookup(p, t) ==
    /\ confirms[p].pc = "idle"
    /\ \E res \in get_subscriber_id_from_token(subscription_tokens, t, now) :
          IF res.some
          THEN /\ confirms' = [confirms EXCEPT ![p] =
                      [pc |-> "update", token |-> t, subscriber_id |-> res.val]]
               /\ UNCHANGED confirmLog
          ELSE /\ confirmLog' = [confirmLog EXCEPT !.last =
                      [token |-> t, status |-> 400,
                       error |-> "Invalid or expired confirmation token"]]
               /\ UNCHANGED confirms
    /\ UNCHANGED <<appVars, extVars, rows, flowVars, swept, lastOp, now, config, jwtVars,
                   subscriptions, subscription_tokens>>

\* update_subscription_status, first statement: UPDATE subscriptions SET
\* status = 'confirmed' WHERE id = $2
ConfirmUpdate(p) ==
    /\ confirms[p].pc = "update"
    /\ subscriptions' = [b \in Subscribers |->
                            IF subscriptions[b] # "none" /\ UuidText[b] = confirms[p].subscriber_id
                            THEN "confirmed" ELSE subscriptions[b]]
    /\ confirms' = [confirms EXCEPT ![p].pc = "delete"]
    /\ UNCHANGED <<appVars, extVars, rows, flowVars, swept, lastOp, now, config, jwtVars,
                   subscription_tokens, confirmLog>>

\* variant: the tokens of the subscriber are kept
ConfirmDelete_Keep(p) ==
    /\ confirms[p].pc = "delete"
    /\ confirmLog' = [confirmLog EXCEPT
                         !.ok = @ \cup {confirms[p].token},
                         !.last = [token |-> confirms[p].token, status |-> 200,
                                   message |-> "Thank you for confirming your subscription!"]]
    /\ confirms' = [confirms EXCEPT ![p] = [pc |-> "idle"]]
    /\ UNCHANGED <<appVars, extVars, rows, flowVars, swept, lastOp, now, config, jwtVars,
                   subscriptions, subscription_tokens>>

\* update_subscription_status, second statement: DELETE FROM
\* subscription_tokens WHERE subscriber_id = $1; then the answer 200
ConfirmDelete(p) ==
    /\ confirms[p].pc = "delete"
    /\ subscription_tokens' =
          {r \in subscription_tokens : r.subscriber_id # confirms[p].subscriber_id}
    /\ confirmLog' = [confirmLog EXCEPT
                         !.ok = @ \cup {confirms[p].token},
                         !.last = [token |-> confirms[p].token, status |-> 200,
                                   message |-> "Thank you for confirming your subscription!"]]
    /\ confirms' = [confirms EXCEPT ![p] = [pc |-> "idle"]]
    /\ UNCHANGED <<appVars, extVars, rows, flowVars, swept, lastOp, now, config, jwtVars,
                   subscriptions>>

\* subscribers, and confirm requests served at the same time
NextConfirm ==
    \/ \E b \in Subscribers, tok \in ConfTokens : Subscribe(b, tok)
    \/ \E p \in Procs, t \in ConfTokens : ConfirmLookup(p, t)
    \/ \E p \in Procs : ConfirmUpdate(p)
    \/ \E p \in Procs : ConfirmDelete(p)
    \/ Tick

SpecConfirm == Init /\ [][NextConfirm]_vars

\* ---------------------------------------------------------------- properties of the store and of rotation
\* some / every outcome of validating plaintext t now
Valid(t) == \E res \in validate_refresh_token(rows, t, now) : res.ok
Fails(t) == \A res \in validate_refresh_token(rows, t, now) : ~res.ok

\* C1: once a refresh has rotated old to new, validating old fails in every
\* later state, and validating new returns its owner as long as the row of
\* new is neither revoked nor past its expires_at.
C1_RotationRetiresOld ==
    \A r \in rotations :
        /\ Fails(r[1])
        /\ Matching(rows, hash_token(r[2])) # {}
        /\ \A i \in Matching(rows, hash_token(r[2])) :
              \/ rows[i].is_revoked
              \/ rows[i].expires_at < now
              \/ validate_refresh_token(rows, r[2], now) = {Ok(rows[i].user_id)}

C1_Witness ==
    \E r \in rotations : Fails(r[1]) /\ Valid(r[2]) /\ now > 0 /\ Len(rows) = MaxTokens

\* C2: of the refresh requests presenting one plaintext, at most one is
\* answered with a new pair.
C2_AtMostOneRefreshPerToken ==
    \A r1, r2 \in rotations : r1[1] = r2[1] => r1[2] = r2[2]

C4_RevokedIsTerminal ==
    [][/\ Len(rows') >= Len(rows)
       /\ \A i \in DOMAIN rows :
             /\ rows'[i].token_hash = rows[i].token_hash
             /\ rows'[i].user_id = rows[i].user_id
             /\ rows[i].is_revoked => rows'[i].is_revoked]_vars

C4_Witness ==
    /\ lastOp.op = "save"
    /\ \E i \in DOMAIN rows : rows[i].is_revoked /\ rows[i].revoked_at # {rows[i].created_at}
    /\ \E i \in DOMAIN rows : ~rows[i].is_revoked

\* C5: validate_refresh_token(t) is Ok(owner) exactly when a row with the
\* digest of t exists that is not revoked and whose expires_at is not before
\* the clock; otherwise it is an error.
Live(t) ==
    \E i \in DOMAIN rows :
        /\ rows[i].token_hash = hash_token(t)
        /\ ~rows[i].is_revoked
        /\ rows[i].expires_at >= now

C5_ValidateIffLive ==
    \A t \in Tokens : \A res \in validate_refresh_token(rows, t, now) :
        /\ res.ok <=> Live(t)
        /\ res.ok => \E i \in Matching(rows, hash_token(t)) : res.val = rows[i].user_id

C5_Witness ==
    /\ lastOp.op = "validate" /\ lastOp.ret.ok /\ Live(lastOp.arg)
    /\ \E i \in DOMAIN rows : ~rows[i].is_revoked /\ rows[i].expires_at < now
    /\ \E t \in Tokens : RowState(rows, t) = "absent"

\* C6: any two failing validations return the same error and lead to the same
\* response.
C6_FailuresIndistinguishable ==
    \A t1, t2 \in Tokens :
        \A r1 \in validate_refresh_token(rows, t1, now) :
            \A r2 \in validate_refresh_token(rows, t2, now) :
                (~r1.ok /\ ~r2.ok) =>
                    /\ r1.err = r2.err
                    /\ error_response(r1.err) = error_response(r2.err)

\* C7: every revoke_refresh_token call returns Ok and leaves the rows of its
\* token revoked; on an absent token it changes no row; on a token already
\* revoked it changes nothing but revoked_at.
C7_RevokeIdempotent ==
    [][\A t \in Tokens : RevokeCall(t) =>
          /\ lastOp'.ret = Ok("unit")
          /\ \A i \in Matching(rows', hash_token(t)) : rows'[i].is_revoked
          /\ RowState(rows, t) = "absent" => rows' = rows
          /\ RowState(rows, t) = "revoked" =>
                /\ Len(rows') = Len(rows)
                /\ \A i \in DOMAIN rows :
                      [rows'[i] EXCEPT !.revoked_at = {}] = [rows[i] EXCEPT !.revoked_at = {}]]_vars

C7_Witness ==
    /\ lastOp.op = "revoke" /\ lastOp.pre = "revoked" /\ lastOp.ret = Ok("unit")
    /\ RowState(rows, lastOp.arg) = "revoked"
    /\ \E i \in Matching(rows, hash_token(lastOp.arg)) :
          rows[i].revoked_at = {now} /\ now > rows[i].created_at

\* C8: every row that was active when revoke_all_user_tokens ran for its owner
\* is revoked, and its plaintext fails validation in every later state.
C8_RevokeAllRevokesActive ==
    /\ \A i \in swept : i \in DOMAIN rows /\ rows[i].is_revoked
    /\ \A t \in Tokens : Matching(rows, hash_token(t)) \cap swept # {} => Fails(t)

C8_Witness ==
    /\ lastOp.op = "revoke_all"
    /\ \E i, j \in swept :
          /\ i # j
          /\ rows[i].user_id = lastOp.arg /\ rows[j].user_id = lastOp.arg
          /\ rows[i].expires_at >= now /\ rows[j].expires_at >= now
          /\ rows[i].revoked_at = rows[j].revoked_at

\* C9: while an access token issued for (u, e) under a lifetime > 0 has not
\* reached iat + lifetime, validating it under the issuing configuration
\* returns claims with sub = u and email = e; and every verification that
\* succeeded under any configuration returned exactly these claims.
C9_AccessTokenRoundTrip ==
    /\ \A x \in issued :
          (config.access_token_expiry > 0 /\ now <= x.at + config.access_token_expiry) =>
              LET res == validate_access_token(x.token, config, now) IN
              /\ res.ok
              /\ res.val.sub = uuid_to_string(x.user_id)
              /\ res.val.email = x.email
    /\ (lastVerify.op = "verify" /\ lastVerify.ret.ok) =>
          /\ lastVerify.ret.val.sub = uuid_to_string(lastVerify.issue.user_id)
          /\ lastVerify.ret.val.email = lastVerify.issue.email

C9_Witness ==
    /\ lastVerify.op = "verify" /\ lastVerify.cfg = config /\ lastVerify.ret.ok
    /\ config.access_token_expiry > 0
    /\ lastVerify.at = lastVerify.issue.at + config.access_token_expiry
    /\ lastVerify.ret.val.email = "b@x.io"
    /\ lastVerify.ret.val.sub = uuid_to_string("u2")

\* C10: an access token is rejected at every clock value greater than
\* iat + lifetime.
C10_RejectedAfterExpiry ==
    \A x \in issued :
        (config.access_token_expiry > 0 /\ now > x.at + config.access_token_expiry) =>
            ~validate_access_token(x.token, config, now).ok

\* C11: a string one edit away from a token that generate_access_token
\* produced (one character changed, put in or taken out) is rejected by
\* validate_access_token under the configuration that issued the token.
C11_TamperedRejected ==
    lastVerify.op = "tamper" => ~lastVerify.ret.ok

\* an issued token was accepted as it is, and an edit of its signature
\* segment was presented and rejected
C11_Witness ==
    /\ lastVerify.op = "tamper"
    /\ validate_access_token(lastVerify.issue.token, config, now).ok
    /\ Len(lastVerify.token) = Len(lastVerify.issue.token) + 1
    /\ SubSeq(lastVerify.token, 1, Len(lastVerify.issue.token)) = lastVerify.issue.token
    /\ ~lastVerify.ret.ok

\* C12: a token issued under one issuer is rejected by every verifier whose
\* configuration names another issuer, whatever the secret and the time.
C12_WrongIssuerRejected ==
    (lastVerify.op = "verify" /\ lastVerify.cfg.issuer # config.issuer)
        => ~lastVerify.ret.ok

\* a verifier with the same secret and another issuer rejected a token
\* that had not reached its expiry and that the issuing configuration accepts
C12_Witness ==
    /\ lastVerify.op = "verify"
    /\ lastVerify.cfg.issuer # config.issuer
    /\ lastVerify.cfg.secret = config.secret
    /\ config.access_token_expiry > 0
    /\ lastVerify.at < lastVerify.issue.at + config.access_token_expiry
    /\ validate_access_token(lastVerify.token, config, lastVerify.at).ok
    /\ ~lastVerify.ret.ok

\* what decode finds wrong with a token, "" when nothing
Reason(token, cfg, clock) ==
    LET data == decode(token, cfg.secret, Validation(cfg), clock) IN
    IF data.ok THEN "" ELSE data.err

\* validation of the token through the function and through the middleware
\* gives, when it fails, what the empty string gives
SameFailure(token, cfg, clock) ==
    validate_access_token(token, cfg, clock).ok
    \/ /\ validate_access_token(token, cfg, clock) =
             validate_access_token(<<>>, config, now)
       /\ JwtMiddleware_call(AuthHeader("Bearer ", token), cfg, clock) =
             JwtMiddleware_call(AuthHeader("Bearer ", <<>>), config, now)

\* C13: every failure of validate_access_token (malformed text, signature,
\* algorithm, issuer, expiry) is the same error value, and the middleware
\* answers every one of them with the same 401 body.
C13_OneFailureValue ==
    /\ ~validate_access_token(<<>>, config, now).ok
    /\ lastVerify.op # "none" =>
          SameFailure(lastVerify.token, lastVerify.cfg, lastVerify.at)

\* an issued token has expired, a verifier naming another issuer rejected
\* it before that, and edits of it fail on the signature, on the algorithm
\* and on the form
C13_Witness ==
    /\ lastVerify.op = "verify"
    /\ Reason(lastVerify.token, lastVerify.cfg, lastVerify.at) = "InvalidIssuer"
    /\ \E x \in issued :
          /\ Reason(x.token, config, now) = "ExpiredSignature"
          /\ \E cfg \in VerifierConfigs : Reason(x.token, cfg, now) = "InvalidSignature"
          /\ \A why \in {"InvalidSignature", "InvalidAlgorithm", "InvalidToken", "Base64", "Json"} :
                \E kind \in EditKinds, i \in 0..Len(x.token), c \in TamperChars(x) :
                    /\ kind = "insert" \/ i \in DOMAIN x.token
                    /\ Reason(Edit(x.token, kind, i, c), config, now) = why

\* the claims an issued token carries in its payload segment
PayloadClaims(token) ==
    claims_from_json(b64_decode(split(token).val.payload).val).val

\* C14: the claims of every token that issuance builds satisfy exp > iat,
\* for every access-token lifetime the configuration can hold.
C14_ExpiresAfterIssued ==
    \A x \in issued : PayloadClaims(x.token).exp > PayloadClaims(x.token).iat

\* the policy as stated: 8 to 128 characters, a digit, a lowercase and an
\* uppercase letter
is_digit(c) == c = "1"
Conforms(p) ==
    /\ Len(p) >= MIN_PASSWORD_LENGTH
    /\ Len(p) <= MAX_PASSWORD_LENGTH
    /\ \E i \in DOMAIN p : is_digit(p[i])
    /\ \E i \in DOMAIN p : is_lowercase(p[i])
    /\ \E i \in DOMAIN p : is_uppercase(p[i])

\* C15: hash_password(p) returns a digest exactly when p has 8 to 128
\* characters and holds a digit, a lowercase and an uppercase letter;
\* otherwise it fails with a validation error.
C15_HashIffConforms ==
    stored.op = "hash" =>
        /\ stored.ret.ok <=> Conforms(stored.p)
        /\ ~stored.ret.ok => stored.ret.err.kind = "Validation"

\* C16: against the digest of a conforming password p, verify_password is
\* true for p and false for every other password.
C16_VerifyIffSamePassword ==
    (/\ lastCheck.op = "verify"
     /\ stored.ret.ok
     /\ Conforms(stored.p)
     /\ lastCheck.digest = stored.ret.val)
        => lastCheck.ret = Ok(lastCheck.q = stored.p)

\* the seconds in which a bucket of the default configuration gains one token
SecondsPerToken == SecondsPerMinute \div DefaultRequestsPerMinute

InBody(t) == threads[t].pc \in {"entry", "refill", "debit", "reject"}

\* C18: calls of check_rate_limit for one address never interleave between
\* refill, test and debit; no bucket goes below zero; and of the calls
\* answered while no time has passed since the bucket was created with k
\* tokens, exactly min(k, calls) are admitted, each debited once.
C18_AtomicTake ==
    /\ \A t1, t2 \in Threads : (InBody(t1) /\ InBody(t2)) => t1 = t2
    /\ \A a \in Addrs : limiters[a].present =>
          /\ limiters[a].tokens >= 0
          /\ (stats[a].last = stats[a].created /\ stats[a].late = 0) =>
                /\ stats[a].burstOk = IF stats[a].burst < limiters[a].capacity
                                      THEN stats[a].burst ELSE limiters[a].capacity
                /\ limiters[a].tokens + SecondsPerMinute * stats[a].burstOk
                     = SecondsPerMinute * limiters[a].capacity

\* a thread has passed the test on the last token of an address and holds
\* the mutex, while another thread has called for the same address
C18_Witness ==
    \E t1, t2 \in Threads :
        /\ threads[t1].pc = "debit"
        /\ mutex = t1
        /\ threads[t2].pc = "lock"
        /\ threads[t2].ip = threads[t1].ip
        /\ limiters[threads[t1].ip].tokens = SecondsPerMinute

\* C19: a thread that has called check_rate_limit for one address never
\* stands at the lock while the lock is held by a call for another address.
C19_NoWaitAcrossAddresses ==
    \A t1, t2 \in Threads :
        ~(/\ threads[t1].pc = "lock"
          /\ mutex = t2
          /\ InBody(t2)
          /\ threads[t2].ip # threads[t1].ip)

\* C20: check_content_length(n) refuses exactly the lengths above
\* max_content_length, and its call leaves every bucket, the mutex and the
\* threads in check_rate_limit as they are.
C20_ContentLengthOnly ==
    [][\A n \in ContentLengths : ContentCall(n) =>
          /\ lastGuard'.ret.ok <=> n <= guardConfig.max_content_length
          /\ <<limiters, mutex, threads>>' = <<limiters, mutex, threads>>]_vars

\* a length equal to the maximum was accepted while a bucket was in use and
\* a call of check_rate_limit held the mutex
C20_Witness ==
    /\ lastGuard.op = "content"
    /\ lastGuard.n = guardConfig.max_content_length
    /\ lastGuard.ret.ok
    /\ \E a \in Addrs : limiters[a].present
    /\ mutex # "free"

\* ---------------------------------------------------------------- properties of the HTTP server
\* the Security Guard has admitted the request: its content length passes
\* check_content_length and its address has been through check_rate_limit
GuardPassed(request) ==
    /\ check_content_length(guardConfig, request.length).ok
    /\ limiters[request.ip].present

\* C21: every request passes the Security Guard (the rate-limit check for
\* its client address and the content-length check) before a route handler
\* runs; a request the guard rejects never reaches a handler.
C21_GuardBeforeHandler ==
    (served.op = "request" /\ served.out.handler \in {r.handler : r \in Routes})
        => GuardPassed(served.request)

\* ---------------------------------------------------------------- properties of the input validators
\* C28: is_valid_email rejects every input that matches a pattern of the
\* injection battery with the possible-injection error, never with the
\* ordinary format error; the address user' OR '1'='1@example.com is
\* rejected as a possible injection.
TautologyEmail == <<"u", "s", "e", "r", "'", " ", "O", "R", " ", "'", "1", "'", "=", "'", "1", "@", "e", "x", "a", "m", "p", "l", "e", ".", "c", "o", "m">>
C28_InjectionDistinguished ==
    (lastValid.op = "email" /\ contains_sql_injection_patterns(trim(lastValid.arg))) =>
        /\ ~lastValid.ret.ok
        /\ lastValid.ret.err # InvalidFormat("email")
        /\ lastValid.arg = TautologyEmail => lastValid.ret.err = PossibleSQLInjection

\* v is s without its leading and trailing whitespace
IsTrimOf(v, s) ==
    /\ v # <<>>
    /\ ~is_whitespace(v[1])
    /\ ~is_whitespace(v[Len(v)])
    /\ \E i \in DOMAIN s :
          /\ i + Len(v) - 1 <= Len(s)
          /\ SubSeq(s, i, i + Len(v) - 1) = v
          /\ \A k \in DOMAIN s : (k < i \/ k >= i + Len(v)) => is_whitespace(s[k])

\* the grounds on which a name is refused whatever else it holds: nothing
\* but whitespace, more than 256 bytes between its first and last visible
\* character, a NUL or a control character there, or more than five
\* characters there that are neither letters, digits, whitespace nor one
\* of - . _ and the apostrophe
Visible(s) == {i \in DOMAIN s : ~is_whitespace(s[i])}
Inner(s) ==
    LET v == Visible(s) IN
    {i \in DOMAIN s : (\E a \in v : a <= i) /\ (\E b \in v : i <= b)}
NameRefused(s) ==
    \/ Visible(s) = {}
    \/ Cardinality(Inner(s)) +
          Cardinality({i \in Inner(s) : s[i] \in {"e-acute", "one-half"}}) > MAX_NAME_LENGTH
    \/ \E i \in Inner(s) : s[i] \in {"NUL", "TAB", "BEL"}
    \/ Cardinality({i \in Inner(s) :
            s[i] \notin AsciiAlnum \cup {"e-acute", "one-half", " ", "TAB", "-", ".", "_", "'"}})
          > 5

WithoutEmail(tbl, email) ==
    LET keep == {i \in DOMAIN tbl : tbl[i].email # email}
        rank(i) == Cardinality({k \in keep : k <= i})
    IN  [n \in 1..Cardinality(keep) |-> tbl[CHOOSE i \in keep : rank(i) = n]]
FormUsers(tbl, form) ==
    IF is_valid_email(form.email).ok
    THEN users_by_email(tbl, is_valid_email(form.email).val)
    ELSE {}

\* two responses a caller cannot tell apart: the same status, and the same
\* message when they are failures
Failure(response) == response.status >= 400
SameAnswer(r1, r2) ==
    /\ r1.status = r2.status
    /\ Failure(r1) => r1.message = r2.message

\* the answers the last request would have got had no user held its email
AnswersWithoutUser ==
    LET tbl == WithoutEmail(lastAuth.accounts, is_valid_email(lastAuth.form.email).val) IN
    IF lastAuth.op = "login"
    THEN {out.response : out \in login(lastAuth.form, tbl, lastAuth.rows, config, now)}
    ELSE {out.response : out \in register(lastAuth.form, tbl, lastAuth.rows, config, now,
                                          lastAuth.salt, lastAuth.id)}

\* C22: for a well-formed email, the response of login when an active user
\* holds the email and the password is wrong has the status and the message
\* of the response when no user holds the email.
C22_UnknownAsWrongPassword ==
    lastAuth.op = "login" =>
        \A u \in FormUsers(lastAuth.accounts, lastAuth.form) :
            (u.is_active
               /\ verify_password(lastAuth.form.password, u.password_hash) = Ok(FALSE))
            => /\ Failure(lastAuth.response)
               /\ \A r \in AnswersWithoutUser : SameAnswer(lastAuth.response, r)

\* a login with a wrong password for an active user was refused
C22_Witness ==
    /\ lastAuth.op = "login"
    /\ \E u \in FormUsers(lastAuth.accounts, lastAuth.form) :
          /\ u.is_active
          /\ verify_password(lastAuth.form.password, u.password_hash) = Ok(FALSE)
    /\ lastAuth.response.status = 400

\* C23: a login refused because the account is inactive gets, whatever the
\* password, the status and the message of a login with an unknown email
\* (which are those of a login with a wrong password).
C23_InactiveAsUnknown ==
    lastAuth.op = "login" =>
        \A u \in FormUsers(lastAuth.accounts, lastAuth.form) :
            ~u.is_active
            => /\ Failure(lastAuth.response)
               /\ \A r \in AnswersWithoutUser : SameAnswer(lastAuth.response, r)

\* C24: a failure response of register or login does not tell whether the
\* email is registered: a request that fails while a user holds its email
\* gets the status and the message it gets when no user holds it.
C24_FailureHidesRegistration ==
    (lastAuth.op \in {"register", "login"}
       /\ Failure(lastAuth.response)
       /\ FormUsers(lastAuth.accounts, lastAuth.form) # {})
    => \A r \in AnswersWithoutUser : SameAnswer(lastAuth.response, r)

\* C25: login answers with a token pair only if a user holds the email
\* submitted (surrounding whitespace apart), that user is active and the
\* password verifies against the stored hash, and it then stores one
\* refresh-token row, for that user; a login that fails stores none.
C25_TokensOnlyForCredentials ==
    lastAuth.op = "login" =>
        IF lastAuth.response.status = 200
        THEN \E i \in DOMAIN lastAuth.accounts :
                LET u == lastAuth.accounts[i] IN
                /\ IsTrimOf(u.email, lastAuth.form.email)
                /\ u.is_active
                /\ bcrypt_verify(lastAuth.form.password, u.password_hash) = Ok(TRUE)
                /\ Len(rows) = Len(lastAuth.rows) + 1
                /\ SubSeq(rows, 1, Len(lastAuth.rows)) = lastAuth.rows
                /\ rows[Len(rows)].user_id = u.id
                /\ rows[Len(rows)].token_hash = hash_token(lastAuth.response.body.refresh_token)
        ELSE /\ Failure(lastAuth.response)
             /\ rows = lastAuth.rows

\* a login with surrounding whitespace in the email has been answered with
\* a token pair
C25_Witness ==
    /\ lastAuth.op = "login"
    /\ lastAuth.form.email[1] = " "
    /\ lastAuth.response.status = 200
    /\ Len(rows) = Len(lastAuth.rows) + 1

\* ---------------------------------------------------------------- properties of the bearer gate
\* the request the server has just answered went to the route JwtMiddleware
\* wraps
AtWrappedRoute ==
    /\ served.op = "request"
    /\ \E r \in Routes : /\ r.wrapped
                          /\ r.path = served.request.path
                          /\ r.method = served.request.method

ProtectedPaths ==
    {"/auth/me", "/subscriptions", "/subscriptions/confirm",
     "/newsletters/send-all", "/newsletters/send-confirmed"}

\* the request carries "Bearer " and a token validate_access_token accepts
HasValidToken(request, cfg, clock) ==
    /\ request.header.present
    /\ request.header.prefix = "Bearer "
    /\ validate_access_token(request.header.rest, cfg, clock).ok

\* C27: a request to a protected endpoint without a valid access token is
\* answered 401 and the handler of the endpoint does not run.
C27_ProtectedRequireAuth ==
    (served.op = "request"
       /\ served.request.path \in ProtectedPaths
       /\ ~HasValidToken(served.request, config, served.at))
    => /\ served.out.handler = "none"
       /\ served.out.answer.status = 401

\* ---------------------------------------------------------------- properties of concurrent registration
\* no two user rows hold the same email
OnePerEmail ==
    \A i, j \in DOMAIN accounts : accounts[i].email = accounts[j].email => i = j

\* the form passes the validations of register: email, name, password
PassesValidation(form) ==
    /\ is_valid_email(form.email).ok
    /\ is_valid_name(form.name).ok
    /\ validate_password_strength(form.password).ok

\* the register requests that have their answer
Answered30 == {p \in Procs : regs[p].pc = "done"}

\* C30 as stated: at most one user row per email, and every register request
\* whose email a user held when it arrived is answered 409 and inserts
\* neither a user row nor a refresh-token row.
C30_Stated ==
    /\ OnePerEmail
    /\ \A p \in Answered30 :
          regs[p].held => /\ regs[p].response.status = 409
                          /\ regs[p].user_rows = 0
                          /\ regs[p].token_rows = 0

\* C30: after any interleaving of register requests no two user rows hold
\* the same email; a register request whose email a user held when it
\* arrived inserts neither a user row nor a refresh-token row, and is
\* answered 409 when its form passes the validations (and 400 when not).
C30_OnePerEmail ==
    /\ OnePerEmail
    /\ \A p \in Answered30 :
          regs[p].held => /\ regs[p].user_rows = 0
                          /\ regs[p].token_rows = 0
                          /\ regs[p].response.status =
                                IF PassesValidation(regs[p].form) THEN 409 ELSE 400

\* a request whose email a user held when it arrived, and a request that
\* lost the race for an email no user held when it arrived, have both been
\* answered 409 and have inserted nothing
C30_Witness ==
    \E p, q \in Procs :
        /\ regs[p].pc = "done" /\ regs[q].pc = "done"
        /\ regs[p].held /\ ~regs[q].held
        /\ regs[p].response.status = 409 /\ regs[q].response.status = 409
        /\ regs[p].user_rows = 0 /\ regs[q].user_rows = 0
        /\ Len(accounts) = 1

\* ---------------------------------------------------------------- frame of the store calls
\* C38: revoke_all_user_tokens(u) adds and removes no row and changes no row
\* of another user and no row of u that was revoked before the call: such a
\* row keeps its is_revoked and its revoked_at.
C38_RevokeAllFrame ==
    [][\A u \in Users : RevokeAllCall(u) =>
          /\ Len(rows') = Len(rows)
          /\ \A i \in DOMAIN rows :
                (rows[i].user_id # u \/ rows[i].is_revoked) => rows'[i] = rows[i]]_vars

\* revoke_all_user_tokens has run for a user with a row revoked earlier and
\* a row it has revoked now: the first keeps the time of its revocation
C38_Witness ==
    /\ lastOp.op = "revoke_all"
    /\ \E i, j \in DOMAIN rows :
          /\ rows[i].user_id = lastOp.arg /\ rows[j].user_id = lastOp.arg
          /\ rows[i].is_revoked /\ rows[i].revoked_at # {now}
          /\ j \in swept /\ rows[j].revoked_at = {now}

\* C39: validate_refresh_token changes no row, whether it returns Ok or an
\* error, so a token that validates still validates after the call; a token
\* stops validating only in a step that revokes a row of its digest or that
\* moves the clock.
C39_ValidateReadsOnly ==
    [][/\ \A t \in Tokens : ValidateCall(t) => /\ rows' = rows
                                               /\ Valid(t) => Valid(t)'
       /\ \A t \in Tokens :
             (Valid(t) /\ ~Valid(t)') =>
                \/ now' # now
                \/ \E i \in Matching(rows, hash_token(t)) :
                      ~rows[i].is_revoked /\ rows'[i].is_revoked]_vars

\* a token has been validated with success and validates again
C39_Witness ==
    /\ lastOp.op = "validate"
    /\ lastOp.ret.ok
    /\ Valid(lastOp.arg)
    /\ \E t \in Tokens : RowState(rows, t) = "revoked"

\* the rows of a plaintext that are neither revoked nor expired
LiveRows(t) ==
    {i \in Matching(rows, hash_token(t)) : ~rows[i].is_revoked /\ rows[i].expires_at >= now}

\* C32: in every reachable state, also after save_refresh_token was called
\* more than once with one plaintext, at most one row that is neither
\* revoked nor expired holds the digest of a plaintext; equal plaintexts
\* have equal digests and different plaintexts different ones.
C32_OneLiveRowPerPlaintext ==
    /\ \A t \in Tokens : Cardinality(LiveRows(t)) <= 1
    /\ \A t1, t2 \in Tokens : (hash_token(t1) = hash_token(t2)) <=> (t1 = t2)

\* ---------------------------------------------------------------- refill and admission of the token buckets
\* C33: a rejected call loses no refill: a call is rejected only while less
\* than 60 / requests_per_minute seconds have passed since the admission
\* that emptied the bucket of its address, however often the address has
\* been checked in between.
C33_NoRefillLost ==
    \A t \in Threads :
        (threads[t].pc = "reject" /\ stats[threads[t].ip].emptied >= 0) =>
            (stats[threads[t].ip].last - stats[threads[t].ip].emptied)
                * guardConfig.requests_per_minute < SecondsPerMinute

\* C35: every bucket holds at least 0 and at most capacity tokens, in every
\* state, also when the clock has been set back and the refill is skipped.
C35_TokensInRange ==
    \A a \in Addrs : limiters[a].present =>
        /\ limiters[a].tokens >= 0
        /\ limiters[a].tokens <= limiters[a].capacity * SecondsPerMinute

\* a call found the clock behind last_refill, skipped the refill and was
\* admitted on a token the bucket still held
C35_Witness ==
    \E t \in Threads :
        /\ threads[t].pc = "debit"
        /\ stats[threads[t].ip].skipped
        /\ limiters[threads[t].ip].last_refill > now
        /\ limiters[threads[t].ip].tokens = SecondsPerMinute

\* calls of check_rate_limit admitted so far for address a
Admitted(a) == stats[a].burstOk + stats[a].lateOk

\* C34: an address has no bucket until its first check, which creates one
\* holding the full capacity; a step of a call changes no bucket but that
\* of the call's own address; and a call is rejected only when the calls
\* admitted for its own address have used up a full capacity, whatever the
\* buckets of other addresses hold.
C34_PerAddressBuckets ==
    [][/\ \A b \in Addrs :
             limiters'[b] # limiters[b] =>
                 /\ \E t \in Threads : mutex = t /\ threads[t].ip = b
                 /\ ~limiters[b].present =>
                       limiters'[b] = TokenBucket_new(guardConfig.requests_per_minute,
                                                      guardConfig.requests_per_minute, now)
       /\ \A b \in Addrs : ~limiters[b].present => stats[b].calls = 0
       /\ \A t \in Threads :
             (threads[t].pc # "reject" /\ threads'[t].pc = "reject") =>
                 Admitted(threads[t].ip) >= guardConfig.requests_per_minute]_vars

\* the bucket of one address is used up and a call for it was rejected;
\* the first call for the other address finds a new, full bucket and is
\* admitted
C34_Witness ==
    \E t \in Threads, a \in Addrs :
        /\ threads[t].pc = "debit"
        /\ threads[t].ip # a
        /\ stats[threads[t].ip].calls = 0
        /\ limiters[threads[t].ip].tokens = guardConfig.requests_per_minute * SecondsPerMinute
        /\ limiters[a].present
        /\ ~has_token(limiters[a])
        /\ Admitted(a) >= 1
        /\ stats[a].calls > Admitted(a)

\* C36: of the calls for one address, those admitted in an interval of T
\* seconds in which the clock is not set back are at most
\* capacity + T * requests_per_minute / 60, whenever the interval begins.
C36_BoundedAdmission ==
    \A a \in Addrs :
        (limiters[a].present /\ stats[a].from >= 0) =>
            stats[a].win * SecondsPerMinute
                <= limiters[a].capacity * SecondsPerMinute
                     + (now - stats[a].from) * guardConfig.requests_per_minute

\* an interval in which more calls than the capacity were admitted, as many
\* as the bound allows
C36_Witness ==
    \E a \in Addrs :
        /\ limiters[a].present
        /\ stats[a].from >= 0
        /\ stats[a].win > limiters[a].capacity
        /\ stats[a].win * SecondsPerMinute
              = limiters[a].capacity * SecondsPerMinute
                  + (now - stats[a].from) * guardConfig.requests_per_minute

Confirmable(t) ==
    \E r \in subscription_tokens : r.subscription_token = t /\ r.expires_at > now

\* the answer 400 to a confirm request with token t
NotConfirmed(t) ==
    [token |-> t, status |-> 400, error |-> "Invalid or expired confirmation token"]

====
